---- MODULE Spec2Model ----
(***************************************************************************)
(* Verification model of the terminal multiplexer (aiclientproxy/terminal, *)
(* src-tauri): the JSON-RPC dispatcher and notification writer             *)
(* (rpc/server.rs, rpc/methods.rs), the session registry (pty/manager.rs,  *)
(* pty/session.rs), the local output pump (pty/output.rs), the OSC scanner *)
(* (shell/osc.rs) and the session state manager (utils/state.rs).          *)
(*                                                                         *)
(* Bytes and characters are integers (their code), strings are sequences   *)
(* of them.  Offsets into strings are 0-based like the Rust source; the    *)
(* operator Slice(s, a, b) is the Rust slice s[a..b].                      *)
(***************************************************************************)
EXTENDS Integers, Sequences, FiniteSets, TLC

(***************************************************************************)
(* Bounds of the model.                                                    *)
(***************************************************************************)
\* number of session ids that can be minted in one run
MaxSessions == 2
\* number of non-empty input lines the dispatcher reads in one run
MaxRequests == 3
\* number of data chunks the pumps read from their transports in one run
MaxReads == 1
\* number of state managers of the state-manager specification
MaxManagers == 2

(***************************************************************************)
(* String helpers (Rust str / slice primitives).                           *)
(***************************************************************************)
\* s[a..b]
Slice(s, a, b) == SubSeq(s, a + 1, b)

\* s.starts_with(p)
StartsWith(s, p) == Len(s) >= Len(p) /\ SubSeq(s, 1, Len(p)) = p

\* s.strip_prefix(p), for a caller that has tested StartsWith(s, p)
StripPrefix(s, p) == Slice(s, Len(p), Len(s))

\* s.find(p): the least offset at which p occurs in s, -1 for None
Find(s, p) ==
    LET hits == {i \in 0..(Len(s) - Len(p)) : Slice(s, i, i + Len(p)) = p}
    IN  IF hits = {} THEN -1 ELSE CHOOSE i \in hits : \A j \in hits : i <= j

(***************************************************************************)
(* shell/osc.rs: constants.                                                *)
(***************************************************************************)
ESC == 27
BEL == 7
OSC_START == <<27, 93>>
ST == <<27, 92>>
MaxClipboardSize == 1048576

\* ASCII codes used by the scanner
Pct == 37
Plus == 43
Slash == 47
Semi == 59

\* "7;", "52;", "file://"
Osc7Prefix == <<55, 59>>
Osc52Prefix == <<53, 50, 59>>
FileUrlPrefix == <<102, 105, 108, 101, 58, 47, 47>>

(***************************************************************************)
(* u8::from_str_radix(hex_str, 16) on the two bytes after a '%'.           *)
(* The digits are 0-9, a-f, A-F; a leading '+' is accepted as a sign.      *)
(* The result is -1 for Err.                                               *)
(***************************************************************************)
HexVal(c) ==
    IF c >= 48 /\ c <= 57 THEN c - 48
    ELSE IF c >= 97 /\ c <= 102 THEN c - 87
    ELSE IF c >= 65 /\ c <= 70 THEN c - 55
    ELSE -1

FromStrRadix16(h1, h2) ==
    IF h1 = Plus
    THEN HexVal(h2)
    ELSE IF HexVal(h1) >= 0 /\ HexVal(h2) >= 0
         THEN 16 * HexVal(h1) + HexVal(h2)
         ELSE -1

(***************************************************************************)
(* urlencoding_decode: the result is a String, here the sequence of its    *)
(* characters (each pushed with `as char`, so a code point 0..255).        *)
(***************************************************************************)
RECURSIVE UrlDecodeFrom(_, _)
UrlDecodeFrom(s, i) ==
    IF i > Len(s) THEN <<>>
    ELSE IF s[i] = Pct
         THEN IF i + 2 <= Len(s)
              THEN \* std::str::from_utf8(&[h1, h2]) fails on a non-ASCII byte
                   IF s[i + 1] < 128 /\ s[i + 2] < 128
                      /\ FromStrRadix16(s[i + 1], s[i + 2]) >= 0
                   THEN <<FromStrRadix16(s[i + 1], s[i + 2])>>
                            \o UrlDecodeFrom(s, i + 3)
                   ELSE <<Pct, s[i + 1], s[i + 2]>> \o UrlDecodeFrom(s, i + 3)
              ELSE IF i + 1 <= Len(s)
                   THEN <<Pct, s[i + 1]>>
                   ELSE <<Pct>>
         ELSE <<s[i]>> \o UrlDecodeFrom(s, i + 1)

urlencoding_decode(s) == UrlDecodeFrom(s, 1)

(***************************************************************************)
(* base64 STANDARD engine: alphabet A-Z a-z 0-9 + /, canonical padding     *)
(* required, trailing bits must be zero.                                   *)
(***************************************************************************)
B64Val(c) ==
    IF c >= 65 /\ c <= 90 THEN c - 65
    ELSE IF c >= 97 /\ c <= 122 THEN c - 71
    ELSE IF c >= 48 /\ c <= 57 THEN c + 4
    ELSE IF c = Plus THEN 62
    ELSE IF c = Slash THEN 63
    ELSE -1

B64Char(v) ==
    IF v < 26 THEN v + 65
    ELSE IF v < 52 THEN v + 71
    ELSE IF v < 62 THEN v - 4
    ELSE IF v = 62 THEN Plus
    ELSE Slash

B64Pad == 61

\* one quantum of four symbols; last = TRUE for the final quantum, which
\* alone may carry padding.  The result is <<ok, bytes>>.
B64Quantum(q, last) ==
    LET a == B64Val(q[1])
        b == B64Val(q[2])
        c == B64Val(q[3])
        d == B64Val(q[4])
    IN  IF a < 0 \/ b < 0 THEN <<FALSE, <<>>>>
        ELSE IF c >= 0 /\ d >= 0
             THEN <<TRUE, <<4 * a + (b \div 16),
                            16 * (b % 16) + (c \div 4),
                            64 * (c % 4) + d>>>>
        ELSE IF last /\ c >= 0 /\ q[4] = B64Pad
             THEN IF c % 4 = 0
                  THEN <<TRUE, <<4 * a + (b \div 16), 16 * (b % 16) + (c \div 4)>>>>
                  ELSE <<FALSE, <<>>>>
        ELSE IF last /\ q[3] = B64Pad /\ q[4] = B64Pad
             THEN IF b % 16 = 0
                  THEN <<TRUE, <<4 * a + (b \div 16)>>>>
                  ELSE <<FALSE, <<>>>>
        ELSE <<FALSE, <<>>>>

RECURSIVE B64DecodeFrom(_, _)
B64DecodeFrom(s, i) ==
    IF i > Len(s) THEN <<TRUE, <<>>>>
    ELSE LET q == B64Quantum(SubSeq(s, i, i + 3), i + 3 = Len(s))
             r == B64DecodeFrom(s, i + 4)
         IN  IF q[1] /\ r[1] THEN <<TRUE, q[2] \o r[2]>> ELSE <<FALSE, <<>>>>

\* BASE64.decode(s): <<TRUE, bytes>> for Ok, <<FALSE, <<>>>> for Err
Base64Decode(s) ==
    IF Len(s) % 4 # 0 THEN <<FALSE, <<>>>> ELSE B64DecodeFrom(s, 1)

RECURSIVE B64EncodeFrom(_, _)
B64EncodeFrom(b, i) ==
    IF i > Len(b) THEN <<>>
    ELSE IF i + 2 <= Len(b)
         THEN <<B64Char(b[i] \div 4),
                B64Char(16 * (b[i] % 4) + (b[i + 1] \div 16)),
                B64Char(4 * (b[i + 1] % 16) + (b[i + 2] \div 64)),
                B64Char(b[i + 2] % 64)>> \o B64EncodeFrom(b, i + 3)
    ELSE IF i + 1 <= Len(b)
         THEN <<B64Char(b[i] \div 4),
                B64Char(16 * (b[i] % 4) + (b[i + 1] \div 16)),
                B64Char(4 * (b[i + 1] % 16)),
                B64Pad>>
    ELSE <<B64Char(b[i] \div 4), B64Char(16 * (b[i] % 4)), B64Pad, B64Pad>>

\* base64::Engine::encode(&STANDARD, bytes)
Base64Encode(b) == B64EncodeFrom(b, 1)

(***************************************************************************)
(* std::str::from_utf8 / String::from_utf8: is the byte sequence           *)
(* well-formed UTF-8?                                                      *)
(***************************************************************************)
IsCont(s, i) == i <= Len(s) /\ s[i] >= 128 /\ s[i] <= 191

RECURSIVE Utf8ValidFrom(_, _)
Utf8ValidFrom(s, i) ==
    IF i > Len(s) THEN TRUE
    ELSE LET b == s[i] IN
         IF b < 128 THEN Utf8ValidFrom(s, i + 1)
         ELSE IF b >= 194 /\ b <= 223
              THEN IsCont(s, i + 1) /\ Utf8ValidFrom(s, i + 2)
         ELSE IF b >= 224 /\ b <= 239
              THEN /\ IsCont(s, i + 1)
                   /\ IsCont(s, i + 2)
                   /\ (b = 224 => s[i + 1] >= 160)
                   /\ (b = 237 => s[i + 1] <= 159)
                   /\ Utf8ValidFrom(s, i + 3)
         ELSE IF b >= 240 /\ b <= 244
              THEN /\ IsCont(s, i + 1)
                   /\ IsCont(s, i + 2)
                   /\ IsCont(s, i + 3)
                   /\ (b = 240 => s[i + 1] >= 144)
                   /\ (b = 244 => s[i + 1] <= 143)
                   /\ Utf8ValidFrom(s, i + 4)
         ELSE FALSE

Utf8Valid(s) == Utf8ValidFrom(s, 1)

(***************************************************************************)
(* shell/osc.rs: OscSequence values.  An event is a record                 *)
(* [kind, sel, text]: kind is the enum variant, sel the clipboard          *)
(* selection (<<variant, n>>), text the path or the clipboard content.     *)
(***************************************************************************)
NoSel == <<"None", 0>>
Unknown == [kind |-> "Unknown", sel |-> NoSel, text |-> <<>>]
WorkingDirectory(path) == [kind |-> "WorkingDirectory", sel |-> NoSel, text |-> path]
Clipboard(selection, content) == [kind |-> "Clipboard", sel |-> selection, text |-> content]

\* ClipboardSelection::from_char followed by unwrap_or(Clipboard) on the
\* first character of the selection field
SelectionOf(selection_str) ==
    IF selection_str = <<>> THEN <<"Clipboard", 0>>
    ELSE LET c == selection_str[1] IN
         IF c = 99 THEN <<"Clipboard", 0>>
         ELSE IF c = 112 THEN <<"Primary", 0>>
         ELSE IF c = 113 THEN <<"Secondary", 0>>
         ELSE IF c = 115 THEN <<"Select", 0>>
         ELSE IF c >= 48 /\ c <= 55 THEN <<"CutBuffer", c - 48>>
         ELSE <<"Clipboard", 0>>

\* OscHandler::parse_file_url: <<TRUE, path>> for Some, <<FALSE, <<>>>> for None
parse_file_url(url) ==
    IF StartsWith(url, FileUrlPrefix)
    THEN LET rest == StripPrefix(url, FileUrlPrefix)
             path_start == Find(rest, <<Slash>>)
         IN  IF path_start >= 0
             THEN <<TRUE, urlencoding_decode(Slice(rest, path_start, Len(rest)))>>
             ELSE <<FALSE, <<>>>>
    ELSE <<FALSE, <<>>>>

\* OscHandler::parse_clipboard: <<TRUE, event>> for Some, <<FALSE, Unknown>> for None
parse_clipboard(data, max_clipboard_size) ==
    LET semi == Find(data, <<Semi>>) IN
    IF semi < 0 THEN <<FALSE, Unknown>>
    ELSE LET selection_str == Slice(data, 0, semi)
             base64_data == Slice(data, semi + 1, Len(data))
             selection == SelectionOf(selection_str)
             decoded == Base64Decode(base64_data)
         IN  IF Len(base64_data) > max_clipboard_size THEN <<FALSE, Unknown>>
             ELSE IF base64_data = <<>> THEN <<TRUE, Clipboard(selection, <<>>)>>
             ELSE IF decoded[1] /\ Utf8Valid(decoded[2])
                  THEN <<TRUE, Clipboard(selection, decoded[2])>>
                  ELSE <<FALSE, Unknown>>

\* OscHandler::parse
parse(data, max_clipboard_size) ==
    IF data = <<>> THEN Unknown
    ELSE IF StartsWith(data, Osc7Prefix)
         THEN LET rest == StripPrefix(data, Osc7Prefix) IN
              IF parse_file_url(rest)[1]
              THEN WorkingDirectory(parse_file_url(rest)[2])
              ELSE IF StartsWith(rest, <<Slash>>)
                   THEN WorkingDirectory(urlencoding_decode(rest))
                   ELSE Unknown
    ELSE IF StartsWith(data, Osc52Prefix)
         THEN parse_clipboard(StripPrefix(data, Osc52Prefix), max_clipboard_size)[2]
    ELSE Unknown

(***************************************************************************)
(* OscHandler::extract_sequences: the while loop, with search_start and    *)
(* the results vector as the loop state.  A result is                      *)
(* [sequence, start, end_] (OscParseResult).                               *)
(***************************************************************************)
RECURSIVE ExtractFrom(_, _, _, _)
ExtractFrom(data, search_start, results, max_clipboard_size) ==
    LET osc_start == Find(Slice(data, search_start, Len(data)), OSC_START) IN
    IF osc_start < 0 THEN results
    ELSE LET absolute_start == search_start + osc_start
             content_start == absolute_start + Len(OSC_START)
         IN
         IF content_start >= Len(data) THEN results
         ELSE LET remaining == Slice(data, content_start, Len(data))
                  bel_pos == Find(remaining, <<BEL>>)
                  st_pos == Find(remaining, ST)
                  use_bel == bel_pos >= 0 /\ (st_pos < 0 \/ bel_pos <= st_pos)
                  end_offset == IF use_bel THEN bel_pos ELSE st_pos
                  terminator_len == IF use_bel THEN 1 ELSE Len(ST)
                  osc_content == Slice(remaining, 0, end_offset)
                  absolute_end == content_start + end_offset + terminator_len
              IN
              IF bel_pos < 0 /\ st_pos < 0
              THEN ExtractFrom(data, content_start, results, max_clipboard_size)
              ELSE ExtractFrom(data, absolute_end,
                               Append(results,
                                      [sequence |-> parse(osc_content, max_clipboard_size),
                                       start |-> absolute_start,
                                       end_ |-> absolute_end]),
                               max_clipboard_size)

\* an extract_sequences whose results end one byte late
extract_sequences_overrun(data, max_clipboard_size) ==
    [k \in 1..Len(ExtractFrom(data, 0, <<>>, max_clipboard_size)) |->
        [ExtractFrom(data, 0, <<>>, max_clipboard_size)[k] EXCEPT !.end_ = @ + 1]]

extract_sequences(data, max_clipboard_size) ==
    ExtractFrom(data, 0, <<>>, max_clipboard_size)

\* the text strip_sequences assembles: the pieces between the results
RECURSIVE StripPieces(_, _, _, _)
StripPieces(data, results, k, last_end) ==
    IF k > Len(results) THEN Slice(data, last_end, Len(data))
    ELSE Slice(data, last_end, results[k].start)
             \o StripPieces(data, results, k + 1, results[k].end_)

\* a strip that reports the sequences and leaves them in the text
strip_sequences_kept(data, max_clipboard_size) ==
    <<data, [k \in 1..Len(extract_sequences(data, max_clipboard_size)) |->
                extract_sequences(data, max_clipboard_size)[k].sequence]>>

\* OscHandler::strip_sequences: <<stripped, sequences>>
strip_sequences(data, max_clipboard_size) ==
    LET results == extract_sequences(data, max_clipboard_size) IN
    IF results = <<>> THEN <<data, <<>>>>
    ELSE <<StripPieces(data, results, 1, 0),
           [k \in 1..Len(results) |-> results[k].sequence]>>

(***************************************************************************)
(* rpc/types.rs: values of the wire protocol.                              *)
(* An Option is a sequence of length 0 (None) or 1 (Some).                 *)
(***************************************************************************)
None == <<>>
Some(v) == <<v>>

Ids == 1..MaxSessions
Passwords == {"hunter2"}

\* ConnectionType::Local with no shell, cwd or env
LocalConnection ==
    [type |-> "local", shell_path |-> None, cwd |-> None, env |-> None]

\* ConnectionType::Ssh
SshConnection(password) ==
    [type |-> "ssh", host |-> "example.com", port |-> None, user |-> None,
     identity_file |-> None, password |-> password]

Connections == {LocalConnection} \cup {SshConnection(Some(p)) : p \in Passwords}

\* one optional field of a serialized object:
\* #[serde(skip_serializing_if = "Option::is_none")]
OptField(name, opt) == IF opt = None THEN <<>> ELSE (name :> opt[1])

\* Serialize for ConnectionType (tag = "type", lowercase variant names)
SerializeConnection(c) ==
    IF c.type = "local"
    THEN ("type" :> "local") @@ OptField("shell_path", c.shell_path)
             @@ OptField("cwd", c.cwd) @@ OptField("env", c.env)
    ELSE ("type" :> "ssh") @@ ("host" :> c.host) @@ OptField("port", c.port)
             @@ OptField("user", c.user)
             @@ OptField("identity_file", c.identity_file)
             @@ OptField("password", c.password)

\* Serialize for SessionStatus (rename_all = "lowercase")
SerializeStatus(st) ==
    CASE st = "Init" -> "init"
      [] st = "Connecting" -> "connecting"
      [] st = "Running" -> "running"
      [] st = "Done" -> "done"
      [] st = "Error" -> "error"

\* Serialize for SessionInfo (created_at, a clock reading, is left out)
SerializeInfo(info) ==
    ("id" :> info.id) @@ ("connection_type" :> SerializeConnection(info.connection_type))
        @@ ("status" :> SerializeStatus(info.status))
        @@ OptField("title", info.title) @@ OptField("cwd", info.cwd)
        @@ OptField("exit_code", info.exit_code)

\* error constructors with the code of another error
method_not_found_as_invalid_request(text, arg) == [code |-> -32600, message |-> <<text, arg>>]
invalid_params_as_parse_error(text, arg) == [code |-> -32700, message |-> <<text, arg>>]

\* a parse error with the code of an internal error
parse_error_as_internal_error(text, arg) == [code |-> -32603, message |-> <<text, arg>>]

\* JsonRpcError constructors: code and message; the message is a text tag
\* and the value formatted into it
parse_error(text, arg) == [code |-> -32700, message |-> <<text, arg>>]
invalid_request(text, arg) == [code |-> -32600, message |-> <<text, arg>>]
method_not_found(text, arg) == [code |-> -32601, message |-> <<text, arg>>]
invalid_params(text, arg) == [code |-> -32602, message |-> <<text, arg>>]
internal_error(text, arg) == [code |-> -32603, message |-> <<text, arg>>]

\* JsonRpcResponse::success / JsonRpcResponse::error.  The result is a
\* record [tag, session_id, infos]: tag "null" for Value::Null,
\* "session_id" for a CreateSessionResponse, "info" for one SessionInfo,
\* "list" for the array of session.list (infos maps each id to its object).
ResponseSuccess(id, result) ==
    [kind |-> "response", jsonrpc |-> "2.0", id |-> id, result |-> Some(result),
     error |-> None]
ResponseError(id, err) ==
    [kind |-> "response", jsonrpc |-> "2.0", id |-> id, result |-> None,
     error |-> Some(err)]

ResultNull == [tag |-> "null", session_id |-> 0, infos |-> <<>>]
ResultSessionId(sid) == [tag |-> "session_id", session_id |-> sid, infos |-> <<>>]
ResultInfo(sid, info) ==
    [tag |-> "info", session_id |-> sid, infos |-> (sid :> SerializeInfo(info))]
ResultList(infos) == [tag |-> "list", session_id |-> 0, infos |-> infos]

\* a rendering that names every error an io error
ErrorToStringIo(e) == <<"io error: {0}", e.arg>>

\* TerminalError::to_string: the #[error] text (named here by its
\* variant, the source text is not ASCII) and its argument
ErrorToString(e) ==
    CASE e.variant = "SessionNotFound" -> <<"session not found: {0}", e.arg>>
      [] e.variant = "PtyCreationFailed" -> <<"pty creation failed: {0}", e.arg>>
      [] e.variant = "InvalidRequest" -> <<"invalid request: {0}", e.arg>>
      [] e.variant = "IoError" -> <<"io error: {0}", e.arg>>

(***************************************************************************)
(* rpc/server.rs: NotificationSender.  A notification is a record          *)
(* [kind, jsonrpc, method, params]; send pushes it onto the unbounded      *)
(* channel.                                                                *)
(***************************************************************************)
Notification(method, params) ==
    [kind |-> "notification", jsonrpc |-> "2.0", method |-> method, params |-> params]

send(q, notification) == Append(q, notification)

send_output(q, session_id, data) ==
    send(q, Notification("terminal.output", [session_id |-> session_id, data |-> data]))

\* a send_status that pushes the notification twice
send_status_twice(q, session_id, status, exit_code) ==
    send(send(q, Notification("session.status",
                         ("session_id" :> session_id) @@ ("status" :> status)
                             @@ OptField("exit_code", exit_code))),
         Notification("session.status",
                         ("session_id" :> session_id) @@ ("status" :> status)
                             @@ OptField("exit_code", exit_code)))

send_status(q, session_id, status, exit_code) ==
    send(q, Notification("session.status",
                         ("session_id" :> session_id) @@ ("status" :> status)
                             @@ OptField("exit_code", exit_code)))

send_cwd(q, session_id, cwd) ==
    send(q, Notification("session.cwd", [session_id |-> session_id, cwd |-> cwd]))

send_clipboard(q, session_id, content) ==
    send(q, Notification("session.clipboard",
                         [session_id |-> session_id, content |-> content]))

\* a receive that takes the newest message
recv_newest(q) == <<q[Len(q)], SubSeq(q, 1, Len(q) - 1)>>

\* UnboundedReceiver::recv on a non-empty channel: <<message, rest>>
recv(q) == <<Head(q), Tail(q)>>

(***************************************************************************)
(* pty/output.rs: what the pump does with one chunk.                       *)
(***************************************************************************)
\* OutputReaderConfig::default().enable_osc_processing
enable_osc_processing == TRUE

\* process_osc_sequences: <<queue after the sends, stripped_data>>
RECURSIVE SendSequences(_, _, _, _)
SendSequences(q, session_id, sequences, k) ==
    IF k > Len(sequences) THEN q
    ELSE LET sequence == sequences[k]
             q1 == CASE sequence.kind = "WorkingDirectory" ->
                            send_cwd(q, session_id, sequence.text)
                     [] sequence.kind = "Clipboard" ->
                            send_clipboard(q, session_id, sequence.text)
                     [] OTHER -> q
         IN  SendSequences(q1, session_id, sequences, k + 1)

\* the events sent last to first
process_osc_sequences_reversed(q, session_id, data) ==
    LET r == strip_sequences(data, MaxClipboardSize)
    IN  <<SendSequences(q, session_id,
                        [k \in 1..Len(r[2]) |-> r[2][Len(r[2]) + 1 - k]], 1),
          r[1]>>

process_osc_sequences(q, session_id, data) ==
    LET r == strip_sequences(data, MaxClipboardSize)
    IN  <<SendSequences(q, session_id, r[2], 1), r[1]>>

\* the Ok(n) branch of the read loop: the queue after the chunk
ReadChunk(q, session_id, data) ==
    LET processed == IF enable_osc_processing /\ Utf8Valid(data)
                     THEN process_osc_sequences(q, session_id, data)
                     ELSE <<q, data>>
        output_data == processed[2]
    IN  IF output_data # <<>>
        THEN send_output(processed[1], session_id, Base64Encode(output_data))
        ELSE processed[1]

\* the chunks a transport delivers in this model:
\*   OSC 7 "/d" BEL                              (an event and nothing else)
\*   "b" OSC 52 "p;aA==" ST OSC 7 "/" BEL "c"    (two events inside text)
\*   0xFF OSC 7 "/d" BEL                         (not UTF-8)
Chunks ==
    { <<27, 93, 55, 59, 47, 100, 7>>,
      <<98, 27, 93, 53, 50, 59, 112, 59, 97, 65, 61, 61, 27, 92,
        27, 93, 55, 59, 47, 7, 99>>,
      <<255, 27, 93, 55, 59, 47, 100, 7>> }

(***************************************************************************)
(* State of the running server.                                            *)
(*   sessions     PtyManager.sessions: id -> PtySession                    *)
(*                [info, local_pty, output_reader]                         *)
(*   minted       the ids Uuid::new_v4 has returned so far                 *)
(*   child        per id, the shell under the PTY: "none", "alive", "dead" *)
(*   pump         per id, the output reader task: [pc, stop_rx, chunk,     *)
(*                ended]; pc is "none" (never spawned), "head" (at the     *)
(*                loop head), "read" (inside reader.read) or "exited";     *)
(*                chunk is the last chunk read                             *)
(*   nreads       number of chunks read so far                             *)
(*   queue        the notification channel                                 *)
(*   stdout       what has been written to the output stream, piece by     *)
(*                piece: [src, part, frame]                                *)
(*   stdout_lock  owner of the Mutex around stdout                         *)
(*   dpc, dreq, dresp   the request loop of RpcServer::run: its position,  *)
(*                the request in hand and the response to write            *)
(*   dheld        the session close_session has taken out of the map       *)
(*   wpc, wcur    the notification task: its position and the notification *)
(*                in hand                                                  *)
(*   nreq         number of lines read                                     *)
(*   produced     per id, the notifications its pump has sent (history)    *)
(*   pre          session.list as it was when the request in hand was read *)
(*                (history)                                                *)
(*   pty_in       per id, the bytes written to the PTY of the session      *)
(* State of the state-manager specification:                               *)
(*   mgr          per manager, SessionStateManager                         *)
(*                [current_status, error_message]                          *)
(*   last_op      the last operation called and its result                 *)
(* State of the SSH-session specification:                                 *)
(*   ssh          one SshSession and its output task                       *)
(* State of the scanner specification:                                     *)
(*   scan         a call of a function of shell/osc.rs: [op, input,        *)
(*                results, stripped, sequences, decoded]                   *)
(***************************************************************************)
VARIABLES sessions, minted, child, pump, queue, stdout, stdout_lock,
          dpc, dreq, dresp, dheld, wpc, wcur, nreq, nreads, produced, pre, pty_in,
          mgr, last_op, ssh, scan

serverVars == <<sessions, minted, child, pump, queue, stdout, stdout_lock,
                dpc, dreq, dresp, dheld, wpc, wcur, nreq, nreads, produced, pre, pty_in>>
mgrVars == <<mgr, last_op>>
sshVars == <<ssh>>
vars == <<sessions, minted, child, pump, queue, stdout, stdout_lock,
          dpc, dreq, dresp, dheld, wpc, wcur, nreq, nreads, produced, pre, pty_in,
          mgr, last_op, ssh, scan>>

NoRequest == [id |-> 0, jsonrpc |-> "", method |-> "", params |-> "", session_id |-> 0,
              data |-> <<>>]
NoFrame == [kind |-> "none"]
NoPump == [pc |-> "none", stop_rx |-> 0, chunk |-> <<>>, ended |-> ""]

(***************************************************************************)
(* pty/session.rs                                                          *)
(***************************************************************************)
\* PtySession::new: a session without a PTY, status Init
PtySessionNew(id, connection_type) ==
    [info |-> [id |-> id, connection_type |-> connection_type, status |-> "Init",
               title |-> None, cwd |-> None, exit_code |-> None],
     local_pty |-> FALSE,
     output_reader |-> FALSE]

\* the status PtySession::new_local gives a session
NewLocalStatus == "Running"

\* PtySession::new_local, when LocalPty::new succeeded
PtySessionNewLocal(id, connection_type) ==
    [info |-> [id |-> id, connection_type |-> connection_type,
               status |-> NewLocalStatus,
               title |-> None, cwd |-> None, exit_code |-> None],
     local_pty |-> TRUE,
     output_reader |-> FALSE]

\* PtySession::set_status
SetStatus(session, status) == [session EXCEPT !.info.status = status]

(***************************************************************************)
(* pty/manager.rs                                                          *)
(***************************************************************************)
\* an id source that can return an id again
NewV4IdsReused(mintedIds) == Ids

\* Uuid::new_v4: a random 128-bit id, which is one that was not returned
\* before (the chance of a repeat, 2^-122, is outside this model).  Ids are
\* opaque, so the fresh id is taken to be the next one.
NewV4Ids(mintedIds) == {i \in Ids : i = Cardinality(mintedIds) + 1}

\* HashMap::insert
MapInsert(map, k, v) ==
    [x \in DOMAIN map \cup {k} |-> IF x = k THEN v ELSE map[x]]

\* a remove that leaves the entry in the map
MapRemoveNothing(map, k) == map

\* HashMap::remove
MapRemove(map, k) == [x \in DOMAIN map \ {k} |-> map[x]]

\* PtyManager::list_sessions: the info of every stored session (the order
\* of a HashMap's values is unspecified; the list is kept as a map by id)
list_sessions(map) == [x \in DOMAIN map |-> SerializeInfo(map[x].info)]

\* PtyManager::session_count
session_count(map) == Cardinality(DOMAIN map)

Init ==
    /\ sessions = <<>>
    /\ minted = {}
    /\ child = [i \in Ids |-> "none"]
    /\ pump = [i \in Ids |-> NoPump]
    /\ queue = <<>>
    /\ stdout = <<>>
    /\ stdout_lock = "free"
    /\ dpc = "read"
    /\ dreq = NoRequest
    /\ dresp = NoFrame
    /\ dheld = None
    /\ wpc = "recv"
    /\ wcur = NoFrame
    /\ nreq = 0
    /\ nreads = 0
    /\ produced = [i \in Ids |-> <<>>]
    /\ pre = <<>>
    /\ pty_in = [i \in Ids |-> <<>>]
    /\ mgr = <<>>
    /\ last_op = [op |-> "", m |-> 0, target |-> "", result |-> "", invalid |-> None]
    /\ ssh = None
    /\ scan = None

(***************************************************************************)
(* The request loop (RpcServer::run, handle_request, RpcMethods::call).    *)
(* One action reads a line and handles the request up to the point where   *)
(* the response is ready or the handler has to wait.                       *)
(***************************************************************************)
\* read_line returned a line: the request counter and the history.  The
\* line is described by what handle_request and the handlers look at: the
\* version, the method, whether the params are there and deserialize
\* ("valid", "absent", "malformed"), the session id they name and the data
\* they carry.
ReadRequest(jsonrpc, method, params, session_id, data) ==
    /\ dpc = "read"
    /\ nreq < MaxRequests
    /\ nreq' = nreq + 1
    /\ dreq' = [id |-> nreq + 1, jsonrpc |-> jsonrpc, method |-> method,
                params |-> params, session_id |-> session_id, data |-> data]
    /\ pre' = list_sessions(sessions)
    /\ UNCHANGED nreads

\* a well-formed request of version 2.0 whose params deserialize
BeginRequest(method, session_id) ==
    ReadRequest("2.0", method, "valid", session_id, <<>>)

\* the response is ready: go and write it
Respond(response) ==
    /\ dresp' = response
    /\ dpc' = "resp"

\* session.create with a Local descriptor: PtyManager::create_session.
\* outcome is what the system does: "ok", "pty_failed" (LocalPty::new
\* fails), "reader_failed" (try_clone_reader fails, the session is stored
\* without a pump)
SessionCreateLocal(session_id, outcome) ==
    /\ BeginRequest("session.create", 0)
    /\ session_id \in NewV4Ids(minted)
    /\ minted' = minted \cup {session_id}
    /\ IF outcome = "pty_failed"
       THEN /\ Respond(ResponseError(nreq + 1,
                    internal_error("{0}", ErrorToString(
                        [variant |-> "PtyCreationFailed", arg |-> "openpty"]))))
            /\ UNCHANGED <<sessions, child, pump>>
       ELSE /\ sessions' = MapInsert(sessions, session_id,
                    [PtySessionNewLocal(session_id, LocalConnection)
                        EXCEPT !.output_reader = (outcome = "ok")])
            /\ child' = [child EXCEPT ![session_id] = "alive"]
            /\ pump' = [pump EXCEPT ![session_id] =
                           IF outcome = "ok" THEN [NoPump EXCEPT !.pc = "head"]
                           ELSE NoPump]
            /\ Respond(ResponseSuccess(nreq + 1, ResultSessionId(session_id)))
    /\ UNCHANGED <<dheld, queue, stdout, stdout_lock, wpc, wcur, produced, pty_in, mgrVars, sshVars, scan>>

\* session.create with an SSH descriptor: a placeholder session in
\* Connecting is stored; no connection is made and no pump is started
SessionCreateSsh(session_id, connection) ==
    /\ BeginRequest("session.create", 0)
    /\ connection.type = "ssh"
    /\ session_id \in NewV4Ids(minted)
    /\ minted' = minted \cup {session_id}
    /\ sessions' = MapInsert(sessions, session_id,
                        SetStatus(PtySessionNew(session_id, connection), "Connecting"))
    /\ Respond(ResponseSuccess(nreq + 1, ResultSessionId(session_id)))
    /\ UNCHANGED <<dheld, child, pump, queue, stdout, stdout_lock, wpc, wcur,
                   produced, pty_in, mgrVars, sshVars, scan>>

\* PtySession::kill and the response of session.close.  kill_ok is the
\* result of Child::kill, which can fail only for a child that has exited.
KillAndRespond(session, request_id, session_id, kill_ok) ==
    /\ (kill_ok = FALSE) => (session.local_pty /\ child[session_id] = "dead")
    /\ child' = IF session.local_pty
                THEN [child EXCEPT ![session_id] = "dead"]
                ELSE child
    /\ Respond(IF kill_ok \/ ~session.local_pty
               THEN ResponseSuccess(request_id, ResultNull)
               ELSE ResponseError(request_id,
                        internal_error("{0}", ErrorToString(
                            [variant |-> "IoError", arg |-> "kill"]))))

\* mpsc::Sender::send on the stop channel (capacity 1): the message is
\* buffered unless the receiver is gone
StopSend(p) == IF p.pc = "exited" THEN p ELSE [p EXCEPT !.stop_rx = 1]

\* session.close, up to the join: PtyManager::close_session removes the
\* session, PtySession::stop_output_reader takes the handle and
\* OutputReaderHandle::stop sends the stop signal
SessionClose(session_id, kill_ok) ==
    /\ BeginRequest("session.close", session_id)
    /\ IF session_id \notin DOMAIN sessions
       THEN /\ Respond(ResponseError(nreq + 1,
                    internal_error("{0}", ErrorToString(
                        [variant |-> "SessionNotFound", arg |-> session_id]))))
            /\ kill_ok
            /\ UNCHANGED <<sessions, child, pump, dheld>>
       ELSE /\ sessions' = MapRemove(sessions, session_id)
            /\ IF sessions[session_id].output_reader
               THEN /\ pump' = [pump EXCEPT ![session_id] = StopSend(@)]
                    /\ dheld' = Some([sessions[session_id] EXCEPT !.output_reader = FALSE])
                    /\ dpc' = "close_join"
                    /\ kill_ok
                    /\ UNCHANGED <<child, dresp>>
               ELSE /\ KillAndRespond(sessions[session_id], nreq + 1, session_id, kill_ok)
                    /\ UNCHANGED <<pump, dheld>>
    /\ UNCHANGED <<minted, queue, stdout, stdout_lock, wpc, wcur, produced, pty_in, mgrVars, sshVars, scan>>

\* session.close, from the join on: OutputReaderHandle::stop awaits the
\* task handle, which completes when the pump task has returned; then
\* PtySession::kill, then the response
CloseJoin(kill_ok) ==
    /\ dpc = "close_join"
    /\ pump[dreq.session_id].pc = "exited"
    /\ KillAndRespond(dheld[1], dreq.id, dreq.session_id, kill_ok)
    /\ dheld' = None
    /\ UNCHANGED <<sessions, minted, pump, queue, stdout, stdout_lock, dreq, wpc, wcur,
                   nreq, nreads, produced, pre, pty_in, mgrVars, sshVars, scan>>

\* session.list
SessionList ==
    /\ BeginRequest("session.list", 0)
    /\ Respond(ResponseSuccess(nreq + 1, ResultList(list_sessions(sessions))))
    /\ UNCHANGED <<sessions, minted, child, pump, queue, stdout, stdout_lock, dheld,
                   wpc, wcur, produced, pty_in, mgrVars, sshVars, scan>>

\* session.get: PtyManager::get_session; an unknown id is invalid params
SessionGet(session_id) ==
    /\ BeginRequest("session.get", session_id)
    /\ Respond(IF session_id \in DOMAIN sessions
               THEN ResponseSuccess(nreq + 1,
                        ResultInfo(session_id, sessions[session_id].info))
               ELSE ResponseError(nreq + 1,
                        invalid_params("session not found: {0}", session_id)))
    /\ UNCHANGED <<sessions, minted, child, pump, queue, stdout, stdout_lock, dheld,
                   wpc, wcur, produced, pty_in, mgrVars, sshVars, scan>>

(***************************************************************************)
(* The rest of the request surface: session.input, session.resize, and the *)
(* requests that are turned down before they reach the registry.           *)
(***************************************************************************)
\* the id of a response to a line that could not be parsed: Value::Null
NullId == 0

\* "No PTY available", the text PtySession::write and resize put in the
\* place of the id
NoPtyAvailable == 0

\* the base64 texts of session.input: "aA==" (the byte 104), "a" (not a
\* multiple of four), "!!!!" (not in the alphabet)
InputData == {<<97, 65, 61, 61>>, <<97>>, <<33, 33, 33, 33>>}

\* the methods RpcMethods::call knows
Methods == {"session.create", "session.input", "session.resize",
            "session.close", "session.list", "session.get"}

\* the methods whose handler reads params
ParamMethods == Methods \ {"session.list"}

\* method names call does not know
UnknownMethods == {"session.destroy"}

\* session.input: PtyManager::send_input looks the session up, decodes the
\* data, and PtySession::write writes it to the PTY.  write_ok is the
\* result of write_all and flush, which can fail once the shell has exited.
SessionInput(session_id, data, write_ok) ==
    /\ ReadRequest("2.0", "session.input", "valid", session_id, data)
    /\ LET failed(e) == ResponseError(nreq + 1, internal_error("{0}", ErrorToString(e)))
       IN
       IF session_id \notin DOMAIN sessions
       THEN /\ Respond(failed([variant |-> "SessionNotFound", arg |-> session_id]))
            /\ write_ok
            /\ UNCHANGED pty_in
       ELSE IF ~Base64Decode(data)[1]
       THEN /\ Respond(failed([variant |-> "InvalidRequest",
                               arg |-> "Invalid base64 data"]))
            /\ write_ok
            /\ UNCHANGED pty_in
       ELSE IF ~sessions[session_id].local_pty
       THEN /\ Respond(failed([variant |-> "SessionNotFound", arg |-> NoPtyAvailable]))
            /\ write_ok
            /\ UNCHANGED pty_in
       ELSE IF write_ok
       THEN /\ pty_in' = [pty_in EXCEPT ![session_id] = @ \o Base64Decode(data)[2]]
            /\ Respond(ResponseSuccess(nreq + 1, ResultNull))
       ELSE /\ child[session_id] = "dead"
            /\ Respond(failed([variant |-> "IoError", arg |-> "write"]))
            /\ UNCHANGED pty_in
    /\ UNCHANGED <<sessions, minted, child, pump, queue, stdout, stdout_lock, dheld,
                   wpc, wcur, produced, mgrVars, sshVars, scan>>

\* a session.resize that marks the session as failed when the resize fails
SessionResizeMarksError(session_id, resize_ok) ==
    /\ BeginRequest("session.resize", session_id)
    /\ LET failed(e) == ResponseError(nreq + 1, internal_error("{0}", ErrorToString(e)))
       IN
       IF session_id \notin DOMAIN sessions
       THEN /\ Respond(failed([variant |-> "SessionNotFound", arg |-> session_id]))
            /\ resize_ok
            /\ UNCHANGED sessions
       ELSE IF ~sessions[session_id].local_pty
       THEN /\ Respond(failed([variant |-> "SessionNotFound", arg |-> NoPtyAvailable]))
            /\ resize_ok
            /\ UNCHANGED sessions
       ELSE IF resize_ok
       THEN /\ Respond(ResponseSuccess(nreq + 1, ResultNull))
            /\ UNCHANGED sessions
       ELSE /\ child[session_id] = "dead"
            /\ Respond(failed([variant |-> "IoError", arg |-> "resize"]))
            /\ sessions' = [sessions EXCEPT ![session_id].info.status = "Error"]
    /\ UNCHANGED <<minted, child, pump, queue, stdout, stdout_lock, dheld,
                   wpc, wcur, produced, pty_in, mgrVars, sshVars, scan>>

\* session.resize: PtyManager::resize_session looks the session up and
\* PtySession::resize sets the window size of the PTY.  resize_ok is the
\* result of MasterPty::resize.
SessionResize(session_id, resize_ok) ==
    /\ BeginRequest("session.resize", session_id)
    /\ LET failed(e) == ResponseError(nreq + 1, internal_error("{0}", ErrorToString(e)))
       IN
       IF session_id \notin DOMAIN sessions
       THEN /\ Respond(failed([variant |-> "SessionNotFound", arg |-> session_id]))
            /\ resize_ok
       ELSE IF ~sessions[session_id].local_pty
       THEN /\ Respond(failed([variant |-> "SessionNotFound", arg |-> NoPtyAvailable]))
            /\ resize_ok
       ELSE IF resize_ok
       THEN Respond(ResponseSuccess(nreq + 1, ResultNull))
       ELSE /\ child[session_id] = "dead"
            /\ Respond(failed([variant |-> "IoError", arg |-> "resize"]))
    /\ UNCHANGED <<sessions, minted, child, pump, queue, stdout, stdout_lock, dheld,
                   wpc, wcur, produced, pty_in, mgrVars, sshVars, scan>>

\* a step that answers with an error and touches nothing else
Rejects(response) ==
    /\ Respond(response)
    /\ UNCHANGED <<sessions, minted, child, pump, queue, stdout, stdout_lock, dheld,
                   wpc, wcur, produced, pty_in, mgrVars, sshVars, scan>>

\* RpcMethods::call, the default arm: a method it does not know
UnknownMethod(method) ==
    /\ ReadRequest("2.0", method, "valid", 0, <<>>)
    /\ Rejects(ResponseError(nreq + 1, method_not_found("method not found: {0}", method)))

\* a handler that reads params finds none
MissingParams(method) ==
    /\ ReadRequest("2.0", method, "absent", 0, <<>>)
    /\ Rejects(ResponseError(nreq + 1, invalid_params("missing params", "")))

\* serde_json::from_value fails on the params
MalformedParams(method) ==
    /\ ReadRequest("2.0", method, "malformed", 0, <<>>)
    /\ Rejects(ResponseError(nreq + 1, invalid_params("params parse error: {0}", "serde")))

\* handle_request: the line is not a JSON-RPC request
RequestParseError ==
    /\ ReadRequest("", "", "", 0, <<>>)
    /\ Rejects(ResponseError(NullId, parse_error("JSON parse error: {0}", "serde")))

\* handle_request: the version is not "2.0"; the method is not looked at
RequestInvalidVersion(method) ==
    /\ ReadRequest("1.0", method, "valid", 0, <<>>)
    /\ Rejects(ResponseError(nreq + 1, invalid_request("invalid JSON-RPC version", "")))

\* RpcServer::run: read_line returned a line that is empty once trimmed; the
\* loop goes back to read_line and writes nothing
BlankLine ==
    /\ dpc = "read"
    /\ nreq < MaxRequests
    /\ nreq' = nreq + 1
    /\ UNCHANGED <<sessions, minted, child, pump, queue, stdout, stdout_lock, dpc, dreq,
                   dresp, dheld, wpc, wcur, nreads, produced, pre, pty_in, mgrVars,
                   sshVars, scan>>

\* RpcServer::run: read_line fails on a line that is not UTF-8
\* (io::ErrorKind::InvalidData) and `?` returns the error from run, then from
\* main: the loop has ended without a response, the runtime drops the
\* notification task and the process exits
ReadLineInvalidUtf8 ==
    /\ dpc = "read"
    /\ nreq < MaxRequests
    /\ nreq' = nreq + 1
    /\ dpc' = "failed"
    /\ wpc' = "aborted"
    /\ wcur' = NoFrame
    /\ stdout_lock' = IF stdout_lock = "writer" THEN "free" ELSE stdout_lock
    /\ UNCHANGED <<sessions, minted, child, pump, queue, stdout, dreq, dresp, dheld,
                   nreads, produced, pre, pty_in, mgrVars, sshVars, scan>>

(***************************************************************************)
(* Writing a frame: lock the stdout mutex, write_all(json),                *)
(* write_all("\n"), flush, drop the guard.  Nothing can be observed        *)
(* between the lock and the first write, nor between the newline and the   *)
(* release, so a frame takes two steps.                                    *)
(***************************************************************************)
\* a lock that is granted whoever holds it
CanLockAlways(lock) == TRUE

\* Mutex::lock can complete
CanLock(lock) == lock = "free"

Piece(src, part, frame) == [src |-> src, part |-> part, frame |-> frame]

\* the dispatcher locks stdout and writes the response
RespWriteJson ==
    /\ dpc = "resp"
    /\ CanLock(stdout_lock)
    /\ stdout_lock' = "dispatcher"
    /\ stdout' = Append(stdout, Piece("dispatcher", "json", dresp))
    /\ dpc' = "resp_nl"
    /\ UNCHANGED <<sessions, minted, child, pump, queue, dreq, dresp, dheld, wpc, wcur,
                   nreq, nreads, produced, pre, pty_in, mgrVars, sshVars, scan>>

\* newline, flush, drop the guard and go back to read_line
RespWriteNewline ==
    /\ dpc = "resp_nl"
    /\ stdout' = Append(stdout, Piece("dispatcher", "nl", dresp))
    /\ stdout_lock' = "free"
    /\ dpc' = "read"
    /\ dreq' = NoRequest
    /\ dresp' = NoFrame
    /\ pre' = <<>>
    /\ UNCHANGED <<sessions, minted, child, pump, queue, dheld, wpc, wcur, nreq, nreads,
                   produced, pty_in, mgrVars, sshVars, scan>>

\* read_line returns 0: the loop ends, the notification task is aborted
\* and the process exits
StdinEof ==
    /\ dpc = "read"
    /\ dpc' = "stopped"
    /\ wpc' = "aborted"
    /\ wcur' = NoFrame
    /\ stdout_lock' = IF stdout_lock = "writer" THEN "free" ELSE stdout_lock
    /\ UNCHANGED <<sessions, minted, child, pump, queue, stdout, dreq, dresp, dheld,
                   nreq, nreads, produced, pre, pty_in, mgrVars, sshVars, scan>>

\* the process is running: run has returned neither Ok (end of input) nor
\* an error
Running == dpc \notin {"stopped", "failed"}

(***************************************************************************)
(* The notification task of RpcServer::run.                                *)
(***************************************************************************)
\* rx.recv() returns a notification, the task locks stdout and writes it
WriterWriteJson ==
    /\ wpc = "recv"
    /\ queue # <<>>
    /\ CanLock(stdout_lock)
    /\ wcur' = recv(queue)[1]
    /\ queue' = recv(queue)[2]
    /\ stdout_lock' = "writer"
    /\ stdout' = Append(stdout, Piece("writer", "json", recv(queue)[1]))
    /\ wpc' = "nl"
    /\ UNCHANGED <<sessions, minted, child, pump, dpc, dreq, dresp, dheld,
                   nreq, nreads, produced, pre, pty_in, mgrVars, sshVars, scan>>

\* newline, flush, drop the guard and go back to recv
WriterWriteNewline ==
    /\ wpc = "nl"
    /\ stdout' = Append(stdout, Piece("writer", "nl", wcur))
    /\ stdout_lock' = "free"
    /\ wpc' = "recv"
    /\ wcur' = NoFrame
    /\ UNCHANGED <<sessions, minted, child, pump, queue, dpc, dreq, dresp,
                   dheld, nreq, nreads, produced, pre, pty_in, mgrVars, sshVars, scan>>

(***************************************************************************)
(* The output pump of one session (start_output_reader's blocking task)    *)
(* and the shell it reads from.                                            *)
(***************************************************************************)
\* a loop head that takes the stop signal and goes on reading
PumpCheckStopIgnored(i) ==
    /\ Running
    /\ pump[i].pc = "head"
    /\ pump' = [pump EXCEPT ![i] =
                   IF @.stop_rx = 1
                   THEN [@ EXCEPT !.pc = "read", !.stop_rx = 0, !.ended = "stop"]
                   ELSE [@ EXCEPT !.pc = "read"]]
    /\ UNCHANGED <<sessions, minted, child, queue, stdout, stdout_lock, dpc, dreq, dresp,
                   dheld, wpc, wcur, nreq, nreads, produced, pre, pty_in, mgrVars, sshVars, scan>>

\* loop head: stop_rx.try_recv(); without a stop signal the task enters
\* reader.read
PumpCheckStop(i) ==
    /\ Running
    /\ pump[i].pc = "head"
    /\ pump' = [pump EXCEPT ![i] =
                   IF @.stop_rx = 1
                   THEN [@ EXCEPT !.pc = "exited", !.stop_rx = 0, !.ended = "stop"]
                   ELSE [@ EXCEPT !.pc = "read"]]
    /\ UNCHANGED <<sessions, minted, child, queue, stdout, stdout_lock, dpc, dreq, dresp,
                   dheld, wpc, wcur, nreq, nreads, produced, pre, pty_in, mgrVars, sshVars, scan>>

\* the queue after a pump step, and the history of what the pump sent
PumpSends(i, q) ==
    /\ queue' = q
    /\ produced' = [produced EXCEPT ![i] = @ \o SubSeq(q, Len(queue) + 1, Len(q))]

\* read returns Ok(n), n > 0
PumpReadData(i, data) ==
    /\ Running
    /\ pump[i].pc = "read"
    /\ child[i] = "alive"
    /\ nreads < MaxReads
    /\ nreads' = nreads + 1
    /\ PumpSends(i, ReadChunk(queue, i, data))
    /\ pump' = [pump EXCEPT ![i] = [@ EXCEPT !.pc = "head", !.chunk = data]]
    /\ UNCHANGED <<sessions, minted, child, stdout, stdout_lock, dpc, dreq, dresp, dheld,
                   wpc, wcur, nreq, pre, pty_in, mgrVars, sshVars, scan>>

\* read returns Ok(0): the shell has exited
PumpReadEof(i) ==
    /\ Running
    /\ pump[i].pc = "read"
    /\ child[i] = "dead"
    /\ PumpSends(i, send_status(queue, i, SerializeStatus("Done"), Some(0)))
    /\ pump' = [pump EXCEPT ![i] = [@ EXCEPT !.pc = "exited", !.ended = "eof"]]
    /\ UNCHANGED <<sessions, minted, child, stdout, stdout_lock, dpc, dreq, dresp, dheld,
                   wpc, wcur, nreq, nreads, pre, pty_in, mgrVars, sshVars, scan>>

\* read fails with WouldBlock: sleep 10 ms, next iteration
PumpReadWouldBlock(i) ==
    /\ Running
    /\ pump[i].pc = "read"
    /\ pump' = [pump EXCEPT ![i] = [@ EXCEPT !.pc = "head"]]
    /\ UNCHANGED <<sessions, minted, child, queue, stdout, stdout_lock, dpc, dreq, dresp,
                   dheld, wpc, wcur, nreq, nreads, produced, pre, pty_in, mgrVars, sshVars, scan>>

\* read fails with Interrupted: continue
PumpReadInterrupted(i) ==
    /\ Running
    /\ pump[i].pc = "read"
    /\ pump' = [pump EXCEPT ![i] = [@ EXCEPT !.pc = "head"]]
    /\ UNCHANGED <<sessions, minted, child, queue, stdout, stdout_lock, dpc, dreq, dresp,
                   dheld, wpc, wcur, nreq, nreads, produced, pre, pty_in, mgrVars, sshVars, scan>>

\* a read error that takes every pump down with it
PumpReadErrorTearsDown(i) ==
    /\ Running
    /\ pump[i].pc = "read"
    /\ child[i] = "dead"
    /\ PumpSends(i, send_status(queue, i, SerializeStatus("Error"), None))
    /\ pump' = [j \in Ids |->
                   IF j = i THEN [pump[j] EXCEPT !.pc = "exited", !.ended = "error"]
                   ELSE IF pump[j].pc \in {"head", "read"}
                        THEN [pump[j] EXCEPT !.pc = "exited"]
                        ELSE pump[j]]
    /\ UNCHANGED <<sessions, minted, child, stdout, stdout_lock, dpc, dreq, dresp, dheld,
                   wpc, wcur, nreq, nreads, pre, pty_in, mgrVars, sshVars, scan>>

\* read fails with another error (EIO once the slave side is closed)
PumpReadError(i) ==
    /\ Running
    /\ pump[i].pc = "read"
    /\ child[i] = "dead"
    /\ PumpSends(i, send_status(queue, i, SerializeStatus("Error"), None))
    /\ pump' = [pump EXCEPT ![i] = [@ EXCEPT !.pc = "exited", !.ended = "error"]]
    /\ UNCHANGED <<sessions, minted, child, stdout, stdout_lock, dpc, dreq, dresp, dheld,
                   wpc, wcur, nreq, nreads, pre, pty_in, mgrVars, sshVars, scan>>

\* the shell exits by itself
ChildExit(i) ==
    /\ Running
    /\ child[i] = "alive"
    /\ child' = [child EXCEPT ![i] = "dead"]
    /\ UNCHANGED <<sessions, minted, pump, queue, stdout, stdout_lock, dpc, dreq, dresp,
                   dheld, wpc, wcur, nreq, nreads, produced, pre, pty_in, mgrVars, sshVars, scan>>

Next ==
    \/ \E i \in Ids, outcome \in {"ok", "pty_failed", "reader_failed"} :
           SessionCreateLocal(i, outcome)
    \/ \E i \in Ids, c \in Connections : SessionCreateSsh(i, c)
    \/ \E i \in Ids, kill_ok \in BOOLEAN : SessionClose(i, kill_ok)
    \/ \E kill_ok \in BOOLEAN : CloseJoin(kill_ok)
    \/ SessionList
    \/ \E i \in Ids : SessionGet(i)
    \/ RespWriteJson
    \/ RespWriteNewline
    \/ StdinEof
    \/ WriterWriteJson
    \/ WriterWriteNewline
    \/ \E i \in Ids : PumpCheckStop(i)
    \/ \E i \in Ids, data \in Chunks : PumpReadData(i, data)
    \/ \E i \in Ids : PumpReadEof(i)
    \/ \E i \in Ids : PumpReadWouldBlock(i)
    \/ \E i \in Ids : PumpReadInterrupted(i)
    \/ \E i \in Ids : PumpReadError(i)
    \/ \E i \in Ids : ChildExit(i)

Spec == Init /\ [][Next]_vars

\* the number of requests the front-end sends in the runs of the full
\* request surface
MaxRpcRequests == 2

\* the request just read is within that number
FewRequests == nreq' <= MaxRpcRequests

\* the server with the whole request surface
NextRpc ==
    \/ \E i \in Ids, outcome \in {"ok", "pty_failed", "reader_failed"} :
           SessionCreateLocal(i, outcome) /\ FewRequests
    \/ \E i \in Ids, c \in Connections : SessionCreateSsh(i, c) /\ FewRequests
    \/ \E i \in Ids, kill_ok \in BOOLEAN : SessionClose(i, kill_ok) /\ FewRequests
    \/ \E kill_ok \in BOOLEAN : CloseJoin(kill_ok)
    \/ SessionList /\ FewRequests
    \/ \E i \in Ids : SessionGet(i) /\ FewRequests
    \/ \E i \in Ids, data \in InputData, write_ok \in BOOLEAN :
           SessionInput(i, data, write_ok) /\ FewRequests
    \/ \E i \in Ids, resize_ok \in BOOLEAN : SessionResize(i, resize_ok) /\ FewRequests
    \/ \E method \in UnknownMethods : UnknownMethod(method) /\ FewRequests
    \/ \E method \in ParamMethods : MissingParams(method) /\ FewRequests
    \/ \E method \in ParamMethods : MalformedParams(method) /\ FewRequests
    \/ RequestParseError /\ FewRequests
    \/ BlankLine /\ FewRequests
    \/ ReadLineInvalidUtf8 /\ FewRequests
    \/ \E method \in Methods \cup UnknownMethods :
           RequestInvalidVersion(method) /\ FewRequests
    \/ RespWriteJson
    \/ RespWriteNewline
    \/ StdinEof
    \/ WriterWriteJson
    \/ WriterWriteNewline
    \/ \E i \in Ids : PumpCheckStop(i)
    \/ \E i \in Ids, data \in Chunks : PumpReadData(i, data)
    \/ \E i \in Ids : PumpReadEof(i)
    \/ \E i \in Ids : PumpReadWouldBlock(i)
    \/ \E i \in Ids : PumpReadInterrupted(i)
    \/ \E i \in Ids : PumpReadError(i)
    \/ \E i \in Ids : ChildExit(i)

SpecRpc == Init /\ [][NextRpc]_vars

(***************************************************************************)
(* utils/state.rs: SessionStateManager.  The managers are values of their  *)
(* own; the state-manager specification calls their operations in every    *)
(* order.                                                                  *)
(***************************************************************************)
Statuses == {"Init", "Connecting", "Running", "Done", "Error"}

Managers == 1..MaxManagers

\* the errors and messages the operations are called with
Errors == {[variant |-> "IoError", arg |-> "read"],
           [variant |-> "InvalidRequest", arg |-> "id"]}
Messages == {<<"custom">>}

\* SessionStateManager::with_status (new is with_status(Init))
with_status(status) == [current_status |-> status, error_message |-> None]

\* a validation that accepts every transition
is_valid_transition_any(from, to) == TRUE

\* SessionStateManager::is_valid_transition
is_valid_transition(from, to) ==
    IF from = to THEN TRUE
    ELSE IF to = "Error" THEN TRUE
    ELSE CASE from = "Init" -> to \in {"Connecting", "Running", "Done"}
           [] from = "Connecting" -> to \in {"Running", "Done"}
           [] from = "Running" -> to \in {"Done"}
           [] from = "Done" -> FALSE
           [] from = "Error" -> FALSE

\* a transition_to that moves the manager whether or not the transition is
\* valid
transition_to_unchecked(self, target) ==
    <<[current_status |-> target, error_message |-> None],
      IF is_valid_transition(self.current_status, target) THEN "Success" ELSE "Invalid",
      IF is_valid_transition(self.current_status, target)
      THEN None ELSE Some([from |-> self.current_status, to |-> target])>>

\* SessionStateManager::transition_to: <<manager, result, invalid>>; result
\* is the variant of StateTransitionResult, invalid the from and to of
\* Invalid
transition_to(self, target) ==
    IF is_valid_transition(self.current_status, target)
    THEN <<[current_status |-> target,
            error_message |-> IF target # "Error" THEN None ELSE self.error_message],
           "Success", None>>
    ELSE <<self, "Invalid", Some([from |-> self.current_status, to |-> target])>>

\* SessionStateManager::transition_to_error
transition_to_error(self, error) ==
    [current_status |-> "Error", error_message |-> Some(ErrorToString(error))]

\* SessionStateManager::transition_to_error_with_message
transition_to_error_with_message(self, message) ==
    [current_status |-> "Error", error_message |-> Some(message)]

\* SessionStateManager::force_set_status
force_set_status(self, status) == [self EXCEPT !.current_status = status]

InitState ==
    /\ sessions = <<>>
    /\ minted = {}
    /\ child = [i \in Ids |-> "none"]
    /\ pump = [i \in Ids |-> NoPump]
    /\ queue = <<>>
    /\ stdout = <<>>
    /\ stdout_lock = "free"
    /\ dpc = "read"
    /\ dreq = NoRequest
    /\ dresp = NoFrame
    /\ dheld = None
    /\ wpc = "recv"
    /\ wcur = NoFrame
    /\ nreq = 0
    /\ nreads = 0
    /\ produced = [i \in Ids |-> <<>>]
    /\ pre = <<>>
    /\ pty_in = [i \in Ids |-> <<>>]
    /\ mgr = [m \in Managers |-> with_status("Init")]
    /\ last_op = [op |-> "", m |-> 0, target |-> "", result |-> "", invalid |-> None]
    /\ ssh = None
    /\ scan = None

TransitionTo(m, target) ==
    /\ mgr' = [mgr EXCEPT ![m] = transition_to(@, target)[1]]
    /\ last_op' = [op |-> "transition_to", m |-> m, target |-> target,
                   result |-> transition_to(mgr[m], target)[2],
                   invalid |-> transition_to(mgr[m], target)[3]]
    /\ UNCHANGED <<serverVars, sshVars, scan>>

TransitionToError(m, error) ==
    /\ mgr' = [mgr EXCEPT ![m] = transition_to_error(@, error)]
    /\ last_op' = [op |-> "transition_to_error", m |-> m, target |-> "Error",
                   result |-> "", invalid |-> None]
    /\ UNCHANGED <<serverVars, sshVars, scan>>

TransitionToErrorWithMessage(m, message) ==
    /\ mgr' = [mgr EXCEPT ![m] = transition_to_error_with_message(@, message)]
    /\ last_op' = [op |-> "transition_to_error_with_message", m |-> m,
                   target |-> "Error", result |-> "", invalid |-> None]
    /\ UNCHANGED <<serverVars, sshVars, scan>>

ForceSetStatus(m, status) ==
    /\ mgr' = [mgr EXCEPT ![m] = force_set_status(@, status)]
    /\ last_op' = [op |-> "force_set_status", m |-> m, target |-> status,
                   result |-> "", invalid |-> None]
    /\ UNCHANGED <<serverVars, sshVars, scan>>

NextState ==
    \/ \E m \in Managers, target \in Statuses : TransitionTo(m, target)
    \/ \E m \in Managers, error \in Errors : TransitionToError(m, error)
    \/ \E m \in Managers, message \in Messages : TransitionToErrorWithMessage(m, message)
    \/ \E m \in Managers, status \in Statuses : ForceSetStatus(m, status)

SpecState == InitState /\ [][NextState]_vars

(***************************************************************************)
(* The server under the scheduling the runtime guarantees: a task that can *)
(* take its next step takes it.  The dispatcher resumes once the pump task *)
(* it joins has returned, pending frames are written, a pump at its loop   *)
(* head goes on, and a read on a PTY whose shell has exited returns.  What *)
(* the front-end sends, when the shell prints and when it exits is up to   *)
(* the environment: no fairness.                                           *)
(***************************************************************************)
Fairness ==
    /\ WF_vars(\E kill_ok \in BOOLEAN : CloseJoin(kill_ok))
    /\ WF_vars(RespWriteJson)
    /\ WF_vars(RespWriteNewline)
    /\ WF_vars(WriterWriteJson)
    /\ WF_vars(WriterWriteNewline)
    /\ \A i \in Ids : WF_vars(PumpCheckStop(i))
    /\ \A i \in Ids : WF_vars(PumpReadEof(i) \/ PumpReadError(i))

FairSpec == Spec /\ Fairness

(***************************************************************************)
(* Properties.                                                             *)
(***************************************************************************)
IsSuccess(frame) == frame.kind = "response" /\ frame.result # None

\* the step in which the dispatcher finishes handling a request of `method`
Answers(method) ==
    /\ dpc # "resp"
    /\ dpc' = "resp"
    /\ dreq'.method = method

\* C1: session.close on a stored session always eventually returns a
\* response: once the close request is in hand, its response gets written.
C1_CloseEventuallyResponds ==
    (dreq.method = "session.close") ~> (dpc = "resp_nl")

\* the connection of session id was given as Local
CreatedLocal(map, id) == map[id].info.connection_type.type = "local"

\* C2: after a successful session.create of a local session, session.list
\* is the list before plus one entry, with the returned id and status
\* running; after a successful session.close of an id, session.list is the
\* list the request found minus that id, and the count is one less.
C2_CreateCloseList ==
    [][ /\ (Answers("session.create") /\ IsSuccess(dresp')) =>
            LET id == dresp'.result[1].session_id IN
            /\ id \notin DOMAIN list_sessions(sessions)
            /\ DOMAIN list_sessions(sessions') = DOMAIN list_sessions(sessions) \cup {id}
            /\ \A x \in DOMAIN sessions : list_sessions(sessions')[x] = list_sessions(sessions)[x]
            /\ list_sessions(sessions')[id]["id"] = id
            /\ CreatedLocal(sessions', id) =>
                   list_sessions(sessions')[id]["status"] = "running"
        /\ (Answers("session.close") /\ IsSuccess(dresp')) =>
            LET id == dreq'.session_id IN
            /\ id \in DOMAIN pre'
            /\ DOMAIN list_sessions(sessions') = DOMAIN pre' \ {id}
            /\ \A x \in DOMAIN sessions' : list_sessions(sessions')[x] = pre'[x]
            /\ session_count(sessions') = Cardinality(DOMAIN pre') - 1
      ]_vars

\* a local session was created and listed as running, and its close has
\* just succeeded, after a join on its pump
C2_Witness ==
    /\ dpc = "resp"
    /\ dreq.method = "session.close"
    /\ IsSuccess(dresp)
    /\ dreq.session_id \in DOMAIN pre
    /\ pre[dreq.session_id]["status"] = "running"
    /\ pump[dreq.session_id].ended = "stop"
    /\ sessions # <<>>

\* the ids the responses written so far have returned from session.create
ReturnedIds(out) ==
    {out[k].frame.result[1].session_id :
        k \in {j \in 1..Len(out) : /\ out[j].src = "dispatcher"
                                   /\ out[j].part = "json"
                                   /\ IsSuccess(out[j].frame)
                                   /\ out[j].frame.result[1].tag = "session_id"}}

ValidatedOps == {"transition_to", "transition_to_error",
                 "transition_to_error_with_message"}

C5_PumpEndMovesRecord ==
    \A i \in Ids :
        /\ (i \in DOMAIN sessions /\ pump[i].ended = "eof")
               ~> (i \notin DOMAIN sessions \/ sessions[i].info.status = "Done")
        /\ (i \in DOMAIN sessions /\ pump[i].ended = "error")
               ~> (i \notin DOMAIN sessions \/ sessions[i].info.status = "Error")

\* C6: a stored session in Connecting eventually is Running or Error
\* (unless it is closed first).
C6_SshLeavesConnecting ==
    \A i \in Ids :
        (i \in DOMAIN sessions /\ sessions[i].info.status = "Connecting")
            ~> (i \notin DOMAIN sessions
                    \/ sessions[i].info.status \in {"Running", "Error"})

\* the frame carries a connection descriptor with a password
FrameHasPassword(frame) ==
    /\ frame.kind = "response"
    /\ frame.result # None
    /\ \E id \in DOMAIN frame.result[1].infos :
           /\ "password" \in DOMAIN frame.result[1].infos[id]["connection_type"]
           /\ frame.result[1].infos[id]["connection_type"]["password"] \in Passwords

\* C7: no frame written to the output stream contains the password of an
\* SSH connection descriptor.
C7_NoPasswordInFrames ==
    \A k \in 1..Len(stdout) : ~FrameHasPassword(stdout[k].frame)

\* C8: the pieces of a frame are adjacent on the output stream (the JSON of
\* a frame is followed by the newline of the same frame, and every newline
\* follows its JSON), and a frame is in progress exactly under the mutex.
C8_FramesWhole ==
    /\ \A k \in 1..Len(stdout) :
           /\ stdout[k].part = "json" =>
                  \/ k = Len(stdout)
                  \/ /\ stdout[k + 1].part = "nl"
                     /\ stdout[k + 1].src = stdout[k].src
                     /\ stdout[k + 1].frame = stdout[k].frame
           /\ stdout[k].part = "nl" =>
                  /\ k > 1
                  /\ stdout[k - 1].part = "json"
                  /\ stdout[k - 1].src = stdout[k].src
    /\ stdout_lock # "free" =>
           /\ stdout # <<>>
           /\ stdout[Len(stdout)].part = "json"
           /\ stdout[Len(stdout)].src = stdout_lock

\* the notification task is inside a frame while the dispatcher has a
\* response to write
C8_Witness ==
    /\ stdout_lock = "writer"
    /\ dpc = "resp"
    /\ Len(stdout) > 2

\* the notifications of session i written so far, and those still queued
WrittenOf(i) ==
    LET w == SelectSeq(stdout, LAMBDA p : /\ p.src = "writer"
                                          /\ p.part = "json"
                                          /\ p.frame.params.session_id = i)
    IN  [k \in 1..Len(w) |-> w[k].frame]
QueuedOf(i) == SelectSeq(queue, LAMBDA n : n.params.session_id = i)

\* C9: for each session, the notifications written to the output stream
\* followed by those still in the channel are the notifications its pump
\* has sent, in the order it sent them, each once.
C9_NotificationsInOrder ==
    \A i \in Ids : WrittenOf(i) \o QueuedOf(i) = produced[i]

\* three notifications of one session have been written while another is
\* still queued
C9_Witness ==
    \E i \in Ids : Len(WrittenOf(i)) >= 3 /\ queue # <<>>

EventMethods == {"session.cwd", "session.clipboard"}

\* the step in which the pump of session i handles a chunk
ReadsChunk(i) ==
    /\ nreads' = nreads + 1
    /\ pump[i].pc = "read"
    /\ pump'[i].pc = "head"

\* C10: when a pump handles a chunk that is valid UTF-8, with OSC
\* processing on, it enqueues one session.cwd or session.clipboard
\* notification per working-directory or clipboard sequence of the chunk,
\* in the order of their offsets in the chunk, and all of them before the
\* one terminal.output notification, which carries the stripped remainder.
C10_EventsBeforeOutput ==
    [][ \A i \in Ids :
            (ReadsChunk(i) /\ enable_osc_processing /\ Utf8Valid(pump'[i].chunk)) =>
            LET data == pump'[i].chunk
                new == SubSeq(queue', Len(queue) + 1, Len(queue'))
                results == extract_sequences(data, MaxClipboardSize)
                events == SelectSeq(results, LAMBDA r :
                              r.sequence.kind \in {"WorkingDirectory", "Clipboard"})
                ev == SelectSeq(new, LAMBDA n : n.method \in EventMethods)
                out == {k \in 1..Len(new) : new[k].method = "terminal.output"}
            IN  /\ Len(queue') >= Len(queue)
                /\ SubSeq(queue', 1, Len(queue)) = queue
                /\ Len(ev) = Len(events)
                /\ \A k \in 1..Len(ev) :
                       /\ ev[k].params.session_id = i
                       /\ events[k].sequence.kind = "WorkingDirectory" =>
                              (ev[k].method = "session.cwd"
                                   /\ ev[k].params.cwd = events[k].sequence.text)
                       /\ events[k].sequence.kind = "Clipboard" =>
                              (ev[k].method = "session.clipboard"
                                   /\ ev[k].params.content = events[k].sequence.text)
                /\ \A k, l \in 1..Len(events) : k < l => events[k].start < events[l].start
                /\ \A o \in out, k \in 1..Len(new) :
                       new[k].method \in EventMethods => k < o
                /\ Cardinality(out) <= 1
                /\ \A o \in out :
                       new[o].params.data =
                           Base64Encode(strip_sequences(data, MaxClipboardSize)[1])
      ]_vars

\* a pump has handled a chunk with two events inside text
C10_Witness ==
    \E i \in Ids :
        /\ Len(produced[i]) >= 3
        /\ produced[i][1].method = "session.clipboard"
        /\ produced[i][2].method = "session.cwd"
        /\ produced[i][3].method = "terminal.output"

\* the first index from p on at which an OSC terminator (BEL, or ESC \)
\* ends, or 0 if there is none
RECURSIVE TerminatorEnd(_, _)
TerminatorEnd(data, p) ==
    IF p > Len(data) THEN 0
    ELSE IF data[p] = BEL THEN p
    ELSE IF p < Len(data) /\ data[p] = ESC /\ data[p + 1] = 92 THEN p + 1
    ELSE TerminatorEnd(data, p + 1)

\* the bytes of data from index p on, without the OSC sequences (ESC ] up
\* to the first terminator) that are terminated inside data
RECURSIVE WithoutOsc(_, _)
WithoutOsc(data, p) ==
    IF p > Len(data) THEN <<>>
    ELSE IF /\ p < Len(data) /\ data[p] = ESC /\ data[p + 1] = 93
            /\ TerminatorEnd(data, p + 2) > 0
         THEN WithoutOsc(data, TerminatorEnd(data, p + 2) + 1)
         ELSE <<data[p]>> \o WithoutOsc(data, p + 1)

\* the bytes carried by the terminal.output notifications of ns, decoded and
\* concatenated
RECURSIVE OutputBytes(_)
OutputBytes(ns) ==
    IF ns = <<>> THEN <<>>
    ELSE IF Head(ns).method = "terminal.output"
         THEN Base64Decode(Head(ns).params.data)[2] \o OutputBytes(Tail(ns))
         ELSE OutputBytes(Tail(ns))

StatusDoneZero(i) ==
    [kind |-> "notification", jsonrpc |-> "2.0", method |-> "session.status",
     params |-> [session_id |-> i, status |-> "done", exit_code |-> 0]]

\* the step in which the read of pump i returns 0
ReadsEof(i) == pump[i].ended # "eof" /\ pump'[i].ended = "eof"

\* C12: when the read of a pump returns 0, the pump sends exactly one
\* notification, session.status with status done and exit_code 0, having
\* sent no session.status before, and its task has returned; a task that
\* has returned sends nothing more and stays returned, so that notification
\* is the last one of the session.
C12_EofOneDoneThenExit ==
    [][ \A i \in Ids :
            /\ ReadsEof(i) =>
                   /\ pump[i].pc = "read"
                   /\ queue' = Append(queue, StatusDoneZero(i))
                   /\ produced'[i] = Append(produced[i], StatusDoneZero(i))
                   /\ \A k \in 1..Len(produced[i]) :
                          produced[i][k].method # "session.status"
                   /\ pump'[i].pc = "exited"
            /\ pump[i].pc = "exited" =>
                   /\ pump'[i].pc = "exited"
                   /\ produced'[i] = produced[i]
                   /\ QueuedOf(i) = <<>> => SelectSeq(queue', LAMBDA n :
                                                n.params.session_id = i) = <<>>
      ]_vars

\* a pump has forwarded output, then read EOF, and has returned; the done
\* notification is the last it sent, and the writer has taken it
C12_Witness ==
    \E i \in Ids :
        /\ pump[i].ended = "eof"
        /\ pump[i].pc = "exited"
        /\ Len(produced[i]) >= 2
        /\ produced[i][Len(produced[i])] = StatusDoneZero(i)
        /\ produced[i][1].method = "terminal.output"
        /\ QueuedOf(i) = <<>>

(***************************************************************************)
(* ssh/session.rs: SshSession.  PtyManager never constructs one (an SSH    *)
(* descriptor gets a placeholder PtySession), so the SSH-session           *)
(* specification drives one SshSession through its public methods: connect *)
(* while no channel is open, start_output_reader once per channel,         *)
(* send_input, resize, set_status and close at any time the object is not  *)
(* inside connect or close, which take &mut self.                          *)
(*   ssh.info         SessionInfo behind the RwLock: [status, exit_code]   *)
(*   ssh.connected    SshClient::is_connected                              *)
(*   ssh.channel      self.channel is Some                                 *)
(*   ssh.chan_lock    owner of the Mutex around the channel                *)
(*   ssh.output_task  self.output_task is Some                             *)
(*   ssh.task         the spawned task: "none", "select" (at the select),  *)
(*                    "waiting" (inside channel.wait, holding the channel  *)
(*                    mutex) or "finished"                                 *)
(*   ssh.stop_tx      self.stop_tx is Some                                 *)
(*   ssh.stop_rx      messages buffered in the stop channel                *)
(*   ssh.pc           "idle", or the position inside connect or close      *)
(*   ssh.notify       the notifications the task has sent                  *)
(*   ssh.input        the bytes sent to the channel                        *)
(*   ssh.size         the window size last sent to the channel             *)
(*   ssh.result       the result of the last call                          *)
(*   ssh.nmsg         number of channel messages delivered                 *)
(*   ssh.delivered    the messages the remote has delivered on the         *)
(*                    channel, in order                                    *)
(*   ssh.nread        how many of them channel.wait() has returned         *)
(***************************************************************************)
MaxSshMessages == 2
MaxSshInputs == 1

\* the id of the session
SshId == 1

\* exit statuses a remote shell reports
ExitStatuses == {0, 3}

\* window sizes: <<cols, rows>>
TermSizes == {<<80, 24>>, <<120, 40>>}

\* the messages channel.wait() returns: ChannelMsg, or no message (None)
ChannelMsgs ==
    {[kind |-> "Data", data |-> <<104>>, exit_status |-> 0],
     [kind |-> "ExtendedData", data |-> <<101>>, exit_status |-> 0],
     [kind |-> "Eof", data |-> <<>>, exit_status |-> 0],
     [kind |-> "Close", data |-> <<>>, exit_status |-> 0],
     [kind |-> "WindowAdjusted", data |-> <<>>, exit_status |-> 0],
     [kind |-> "None", data |-> <<>>, exit_status |-> 0]}
    \cup {[kind |-> "ExitStatus", data |-> <<>>, exit_status |-> c] : c \in ExitStatuses}

\* SshSession::new
SshSessionNew ==
    [info |-> [status |-> "Init", exit_code |-> None],
     connected |-> FALSE,
     channel |-> FALSE,
     chan_lock |-> "free",
     output_task |-> FALSE,
     task |-> "none",
     stop_tx |-> FALSE,
     stop_rx |-> 0,
     pc |-> "idle",
     notify |-> <<>>,
     input |-> <<>>,
     size |-> <<80, 24>>,
     result |-> "",
     nmsg |-> 0,
     delivered |-> <<>>,
     nread |-> 0]

InitSsh ==
    /\ sessions = <<>>
    /\ minted = {}
    /\ child = [i \in Ids |-> "none"]
    /\ pump = [i \in Ids |-> NoPump]
    /\ queue = <<>>
    /\ stdout = <<>>
    /\ stdout_lock = "free"
    /\ dpc = "read"
    /\ dreq = NoRequest
    /\ dresp = NoFrame
    /\ dheld = None
    /\ wpc = "recv"
    /\ wcur = NoFrame
    /\ nreq = 0
    /\ nreads = 0
    /\ produced = [i \in Ids |-> <<>>]
    /\ pre = <<>>
    /\ pty_in = [i \in Ids |-> <<>>]
    /\ mgr = <<>>
    /\ last_op = [op |-> "", m |-> 0, target |-> "", result |-> "", invalid |-> None]
    /\ ssh = SshSessionNew
    /\ scan = None

\* a step of the SSH session: everything else stays
SshStep(next) ==
    /\ ssh' = next
    /\ UNCHANGED <<serverVars, mgrVars, scan>>

\* connect, first block: the status becomes Connecting
SshConnectBegin ==
    /\ ssh.pc = "idle"
    /\ ~ssh.channel
    /\ SshStep([ssh EXCEPT !.info.status = "Connecting", !.pc = "connecting"])

\* connect, the rest.  outcome is what the network does: "connect_failed"
\* (SshClient::connect fails), "channel_failed" (opening the channel, the
\* PTY request or the shell request fails) or "ok".  On a failure the method
\* returns with `?` and the status stays Connecting.
SshConnectEnd(outcome) ==
    /\ ssh.pc = "connecting"
    /\ SshStep(CASE outcome = "connect_failed" ->
                        [ssh EXCEPT !.pc = "idle", !.result = "err"]
                 [] outcome = "channel_failed" ->
                        [ssh EXCEPT !.pc = "idle", !.result = "err",
                                    !.connected = TRUE]
                 [] outcome = "ok" ->
                        [ssh EXCEPT !.pc = "idle", !.result = "ok",
                                    !.connected = TRUE,
                                    !.channel = TRUE,
                                    !.info.status = "Running"])

\* start_output_reader: without a channel an error; else the stop channel
\* is made and the task spawned
SshStartOutputReader ==
    /\ ssh.pc = "idle"
    /\ ~ssh.output_task
    /\ SshStep(IF ~ssh.channel
               THEN [ssh EXCEPT !.result = "err"]
               ELSE [ssh EXCEPT !.result = "ok",
                                !.output_task = TRUE,
                                !.task = "select",
                                !.stop_tx = TRUE,
                                !.stop_rx = 0])

\* stop_rx.recv() is ready: a stop message is buffered, or the sender is
\* gone
StopReady(s) == s.stop_rx > 0 \/ ~s.stop_tx

\* the task at the select, no stop signal: the second arm locks the channel
\* and waits for a message
SshTaskLock ==
    /\ ssh.task = "select"
    /\ ~StopReady(ssh)
    /\ ssh.chan_lock = "free"
    /\ SshStep([ssh EXCEPT !.task = "waiting", !.chan_lock = "task"])

\* the stop arm of the biased select fires: the other arm is dropped (and
\* with it the guard of the channel mutex) and the task returns
SshTaskStop ==
    /\ ssh.task \in {"select", "waiting"}
    /\ StopReady(ssh)
    /\ SshStep([ssh EXCEPT !.task = "finished",
                           !.stop_rx = 0,
                           !.chan_lock = IF @ = "task" THEN "free" ELSE @])

\* the update of the ExitStatus arm, under one write lock
ExitStatusUpdate(info, exit_status) ==
    [info EXCEPT !.status = "Done", !.exit_code = Some(exit_status)]

\* the remote delivers msg on the open channel, where it waits for
\* channel.wait().  A remote reports one exit status at most, and nothing
\* comes after Close or after the connection is gone ("None").
SshRemoteSends(msg) ==
    /\ ssh.channel
    /\ ssh.nmsg < MaxSshMessages
    /\ \A k \in 1..Len(ssh.delivered) :
           /\ ssh.delivered[k].kind \notin {"Close", "None"}
           /\ msg.kind = "ExitStatus" => ssh.delivered[k].kind # "ExitStatus"
    /\ SshStep([ssh EXCEPT !.delivered = Append(@, msg), !.nmsg = @ + 1])

\* channel.wait() returns msg, the next message delivered, and the task
\* handles it
SshTaskRecv(msg) ==
    /\ ssh.task = "waiting"
    /\ ssh.nread < Len(ssh.delivered)
    /\ msg = ssh.delivered[ssh.nread + 1]
    /\ LET s == [ssh EXCEPT !.chan_lock = "free", !.nread = @ + 1] IN
       SshStep(CASE msg.kind \in {"Data", "ExtendedData"} ->
                        [s EXCEPT !.task = "select",
                                  !.notify = send_output(@, SshId, Base64Encode(msg.data))]
                 [] msg.kind = "ExitStatus" ->
                        [s EXCEPT !.task = "finished",
                                  !.info = ExitStatusUpdate(@, msg.exit_status),
                                  !.notify = send_status(@, SshId, "done",
                                                         Some(msg.exit_status))]
                 [] msg.kind \in {"Eof", "Close", "None"} ->
                        [s EXCEPT !.task = "finished"]
                 [] OTHER ->
                        [s EXCEPT !.task = "select"])

\* send_input: without a channel an error; else lock the channel and send
SshSendInput(data) ==
    /\ ssh.pc = "idle"
    /\ Len(ssh.input) < MaxSshInputs
    /\ ssh.channel => ssh.chan_lock = "free"
    /\ SshStep(IF ~ssh.channel
               THEN [ssh EXCEPT !.result = "err"]
               ELSE [ssh EXCEPT !.result = "ok", !.input = @ \o data])

\* resize: without a channel an error; else lock the channel and send
\* window_change
SshResize(term_size) ==
    /\ ssh.pc = "idle"
    /\ ssh.channel => ssh.chan_lock = "free"
    /\ SshStep(IF ~ssh.channel
               THEN [ssh EXCEPT !.result = "err"]
               ELSE [ssh EXCEPT !.result = "ok", !.size = term_size])

\* SshSession::set_status
SshSetStatus(status) ==
    /\ SshStep([ssh EXCEPT !.info.status = status])

\* close, up to the lock of the channel: the stop sender is taken and the
\* stop message sent (a task that has returned dropped the receiver)
SshCloseBegin ==
    /\ ssh.pc = "idle"
    /\ SshStep([ssh EXCEPT !.pc = "close_lock",
                           !.stop_tx = FALSE,
                           !.stop_rx = IF ssh.stop_tx /\ ssh.task \in {"select", "waiting"}
                                       THEN 1 ELSE @])

\* close: the channel is taken, locked, and eof and close are sent
SshCloseChannel ==
    /\ ssh.pc = "close_lock"
    /\ ssh.channel => ssh.chan_lock = "free"
    /\ SshStep([ssh EXCEPT !.pc = "close_join", !.channel = FALSE])

\* close, from the join on: the task handle is taken and awaited (the task
\* has been signalled and returns well within the 5 s of the timeout), then
\* the client disconnects; if that fails close returns the error, else the
\* status becomes Done
SshCloseJoin(disconnect_ok) ==
    /\ ssh.pc = "close_join"
    /\ ssh.output_task => ssh.task = "finished"
    /\ SshStep(IF disconnect_ok
               THEN [ssh EXCEPT !.pc = "idle", !.result = "ok",
                                !.output_task = FALSE,
                                !.task = "none",
                                !.connected = FALSE,
                                !.info.status = "Done"]
               ELSE [ssh EXCEPT !.pc = "idle", !.result = "err",
                                !.output_task = FALSE,
                                !.task = "none"])

NextSsh ==
    \/ SshConnectBegin
    \/ \E outcome \in {"connect_failed", "channel_failed", "ok"} : SshConnectEnd(outcome)
    \/ SshStartOutputReader
    \/ SshTaskLock
    \/ SshTaskStop
    \/ \E msg \in ChannelMsgs : SshRemoteSends(msg)
    \/ \E msg \in ChannelMsgs : SshTaskRecv(msg)
    \/ \E data \in {<<108>>} : SshSendInput(data)
    \/ \E term_size \in TermSizes : SshResize(term_size)
    \/ \E status \in Statuses : SshSetStatus(status)
    \/ SshCloseBegin
    \/ SshCloseChannel
    \/ \E disconnect_ok \in BOOLEAN : SshCloseJoin(disconnect_ok)

SpecSsh == InitSsh /\ [][NextSsh]_vars

PumpLive(i) == pump[i].pc \in {"head", "read"}

\* the session has a transport and its reader has not seen it end
TransportOpen(i) ==
    /\ sessions[i].local_pty
    /\ pump[i].ended \notin {"eof", "error"}

\* C14: a stored session has a running pump task exactly when its status is
\* Running or Connecting and its transport is open (a session has at most
\* one pump task: the one of its id).
C14_PumpLiveIffOpen ==
    \A i \in DOMAIN sessions :
        PumpLive(i) <=> ( /\ sessions[i].info.status \in {"Running", "Connecting"}
                          /\ TransportOpen(i) )

\* the step in which a request of `method` naming an id that is not in the
\* registry is read and handled
HandlesUnknownId(method) ==
    /\ dpc = "read"
    /\ dreq'.method = method
    /\ dreq'.session_id \in Ids
    /\ dreq'.session_id \notin DOMAIN sessions

\* C15: session.close for an id that is not in the registry is answered
\* with an error, session not found, under the id of the request, and the
\* registry is as it was: the stored sessions with their status, the pumps
\* and the shells.
C15_CloseUnknownLeavesRegistry ==
    [][ HandlesUnknownId("session.close") =>
            /\ dpc' = "resp"
            /\ dresp'.kind = "response"
            /\ dresp'.id = dreq'.id
            /\ dresp'.result = None
            /\ dresp'.error # None
            /\ dresp'.error[1].message =
                   <<"{0}", <<"session not found: {0}", dreq'.session_id>>>>
            /\ UNCHANGED <<sessions, pump, child, minted, queue>>
      ]_vars

\* session.close of an unknown id has been answered with an error while the
\* registry holds a session with a running pump
C15_Witness ==
    /\ dpc = "resp"
    /\ dreq.method = "session.close"
    /\ dreq.session_id \notin DOMAIN pre
    /\ dresp.error # None
    /\ pre = list_sessions(sessions)
    /\ \E i \in DOMAIN sessions : PumpLive(i)

\* C16: session.close for an id that is in the registry returns ok and
\* removes the session, whatever the status of the session and whether or
\* not its shell has exited: once such a request is in hand, a success
\* response to it gets written and the id is out of the registry.
C16_CloseStoredReturnsOk ==
    (dreq.method = "session.close" /\ dreq.session_id \in DOMAIN pre)
        ~> ( /\ dpc = "resp_nl"
             /\ dreq.method = "session.close"
             /\ IsSuccess(dresp)
             /\ dreq.session_id \notin DOMAIN sessions )

\* the methods that act on a session named by id and go to the registry
\* for it with a TerminalError as the failure
SessionMethods == {"session.input", "session.resize", "session.close"}

\* C17: a session.input, session.resize or session.close request that
\* names an id which is not in the registry is answered with an error of
\* code -32001.
C17_UnknownIdIsMinus32001 ==
    [][ \A method \in SessionMethods :
            (HandlesUnknownId(method) /\ dreq'.params = "valid") =>
                /\ dpc' = "resp"
                /\ dresp'.error # None
                /\ dresp'.error[1].code = -32001
      ]_vars

\* C18: session.input for a stored session with data that is not valid
\* base64 is answered with an invalid-params error (-32602), and no byte is
\* written to the transport of the session.
C18_BadBase64IsInvalidParams ==
    [][ ( /\ dpc = "read"
          /\ dreq'.method = "session.input"
          /\ dreq'.params = "valid"
          /\ dreq'.session_id \in DOMAIN sessions
          /\ ~Base64Decode(dreq'.data)[1] ) =>
            /\ dpc' = "resp"
            /\ dresp'.error # None
            /\ dresp'.error[1].code = -32602
            /\ UNCHANGED pty_in
      ]_vars

\* the step in which a request of version 2.0 is read and handled
HandlesRequest ==
    /\ dpc = "read"
    /\ nreq' = nreq + 1
    /\ dreq'.jsonrpc = "2.0"

\* what a request that is turned down leaves alone: the registry, the
\* pumps, the shells and what was written to them
RegistryUntouched == UNCHANGED <<sessions, minted, pump, child, pty_in, queue>>

\* C19: a request (of version 2.0) whose method is none of session.create,
\* session.input, session.resize, session.close, session.list and
\* session.get is answered with an error of code -32601 in a response of
\* version "2.0" under the id of the request, without a result, and the
\* registry is as it was.
C19_UnknownMethodIsMinus32601 ==
    [][ (HandlesRequest /\ dreq'.method \notin Methods) =>
            /\ dpc' = "resp"
            /\ dresp'.kind = "response"
            /\ dresp'.jsonrpc = "2.0"
            /\ dresp'.id = dreq'.id
            /\ dresp'.result = None
            /\ dresp'.error # None
            /\ dresp'.error[1].code = -32601
            /\ RegistryUntouched
      ]_vars

\* a request for an unknown method has been answered with -32601 while the
\* registry holds a session
C19_Witness ==
    /\ dpc = "resp"
    /\ dreq.jsonrpc = "2.0"
    /\ dreq.method \in UnknownMethods
    /\ dresp.error # None
    /\ dresp.error[1].code = -32601
    /\ sessions # <<>>
    /\ pre = list_sessions(sessions)

\* C20: for session.create, session.input, session.resize, session.close
\* and session.get, a request without params is answered with an error of
\* code -32602, and a request whose params do not deserialize into the
\* request type of the method with an error of code -32602 or -32603; in
\* both cases no session is created, changed or removed.
C20_BadParamsRejected ==
    [][ \A method \in ParamMethods :
            (HandlesRequest /\ dreq'.method = method) =>
                /\ dreq'.params = "absent" =>
                       /\ dpc' = "resp"
                       /\ dresp'.id = dreq'.id
                       /\ dresp'.result = None
                       /\ dresp'.error # None
                       /\ dresp'.error[1].code = -32602
                       /\ RegistryUntouched
                /\ dreq'.params = "malformed" =>
                       /\ dpc' = "resp"
                       /\ dresp'.id = dreq'.id
                       /\ dresp'.result = None
                       /\ dresp'.error # None
                       /\ dresp'.error[1].code \in {-32602, -32603}
                       /\ RegistryUntouched
      ]_vars

\* session.close with params that do not deserialize has been turned down
\* while the registry holds a session with a running pump
C20_Witness ==
    /\ dpc = "resp"
    /\ dreq.method = "session.close"
    /\ dreq.params = "malformed"
    /\ dresp.error # None
    /\ dresp.error[1].code = -32602
    /\ \E i \in DOMAIN sessions : PumpLive(i)

\* the step in which a line is read and taken to handle_request
HandlesLine ==
    /\ dpc = "read"
    /\ nreq' = nreq + 1
    /\ dreq' # NoRequest

\* C21: a line that does not parse as a JSON-RPC request is answered with an
\* error of code -32700 under the id null; a request whose jsonrpc is not
\* "2.0" is answered with an error of code -32600 under the id of the
\* request; in both cases no method is dispatched: the registry, the pumps,
\* the shells and the notification channel are as they were.
C21_ParseErrorAndBadVersion ==
    [][ HandlesLine =>
            /\ dreq'.jsonrpc = "" =>
                   /\ dpc' = "resp"
                   /\ dresp'.kind = "response"
                   /\ dresp'.id = NullId
                   /\ dresp'.result = None
                   /\ dresp'.error # None
                   /\ dresp'.error[1].code = -32700
                   /\ RegistryUntouched
            /\ dreq'.jsonrpc \notin {"", "2.0"} =>
                   /\ dpc' = "resp"
                   /\ dresp'.kind = "response"
                   /\ dresp'.id = dreq'.id
                   /\ dresp'.result = None
                   /\ dresp'.error # None
                   /\ dresp'.error[1].code = -32600
                   /\ RegistryUntouched
      ]_vars

\* a line that did not parse was answered with -32700 under the id null, and
\* a request of another version for a method the server has is now answered
\* with -32600
C21_Witness ==
    /\ \E k \in 1..Len(stdout) :
           /\ stdout[k].frame.kind = "response"
           /\ stdout[k].frame.id = NullId
           /\ stdout[k].frame.error # None
           /\ stdout[k].frame.error[1].code = -32700
    /\ dpc = "resp"
    /\ dreq.jsonrpc = "1.0"
    /\ dreq.method \in Methods
    /\ dresp.id = dreq.id
    /\ dresp.error # None
    /\ dresp.error[1].code = -32600

\* C22: no input line makes the request loop stop, be it invalid JSON, an
\* envelope of the wrong types or bytes that are not UTF-8: once a line has
\* been read, run has not returned (it returns only at the end of input).
C22_NoLineStopsLoop ==
    [][ (dpc = "read" /\ nreq' = nreq + 1) => Running' ]_vars

DoneNotes(ns) ==
    {k \in 1..Len(ns) : ns[k].method = "session.status" /\ ns[k].params.status = "done"}

\* the exit statuses the remote has delivered
DeliveredExit(s) ==
    {s.delivered[k].exit_status :
         k \in {j \in 1..Len(s.delivered) : s.delivered[j].kind = "ExitStatus"}}

\* the remote has delivered its exit status and the reader has ended on a
\* channel message (close was not called)
ExitDelivered(s) ==
    /\ s.task = "finished"
    /\ s.stop_tx
    /\ DeliveredExit(s) # {}

\* C24: once the remote has delivered ExitStatus, before or after the last
\* Data and Eof, the status of the SSH session is Done with that exit code
\* and one session.status done notification has been sent; as long as no
\* ExitStatus was delivered no exit code is reported.
C24_ExitStatusReported ==
    /\ [][ (~ExitDelivered(ssh) /\ ExitDelivered(ssh')) =>
               /\ ssh'.info.status = "Done"
               /\ \E c \in DeliveredExit(ssh') : ssh'.info.exit_code = Some(c)
               /\ Cardinality(DoneNotes(ssh'.notify)) = 1
         ]_vars
    /\ [](DeliveredExit(ssh) = {} =>
               /\ ssh.info.exit_code = None
               /\ DoneNotes(ssh.notify) = {})

\* the pairs <<from, to>> of a valid transition: a state to itself, any
\* state to Error, Init to Connecting, Running or Done, Connecting to
\* Running or Done, Running to Done
ValidPairs ==
    {<<st, st>> : st \in Statuses}
        \cup {<<st, "Error">> : st \in Statuses}
        \cup {<<"Init", "Connecting">>, <<"Init", "Running">>, <<"Init", "Done">>,
              <<"Connecting", "Running">>, <<"Connecting", "Done">>,
              <<"Running", "Done">>}

C26_InvalidLeavesManager ==
    [][ \A m \in Managers :
            ( /\ last_op'.op = "transition_to"
              /\ last_op'.m = m
              /\ ~is_valid_transition(mgr[m].current_status, last_op'.target) ) =>
                /\ last_op'.result = "Invalid"
                /\ last_op'.invalid =
                       Some([from |-> mgr[m].current_status, to |-> last_op'.target])
                /\ mgr'[m].current_status = mgr[m].current_status
                /\ mgr'[m].error_message = mgr[m].error_message
      ]_vars

\* transition_to(Running) has just been rejected on a manager in Error that
\* carries an error message
C26_Witness ==
    /\ last_op.op = "transition_to"
    /\ last_op.target = "Running"
    /\ last_op.result = "Invalid"
    /\ last_op.invalid = Some([from |-> "Error", to |-> "Running"])
    /\ mgr[last_op.m].current_status = "Error"
    /\ mgr[last_op.m].error_message # None

\* every manager in Error carries an error message that is not empty
ErrorHasMessage ==
    \A m \in Managers :
        mgr[m].current_status = "Error" =>
            /\ mgr[m].error_message # None
            /\ mgr[m].error_message[1] # <<>>

\* C27: in every state reached through transition_to, transition_to_error
\* and transition_to_error_with_message, a manager in Error carries an
\* error message that is present and not empty: a new manager does, and
\* each of the three operations keeps it so.
C27_ErrorCarriesMessage ==
    [][ (ErrorHasMessage /\ last_op'.op \in ValidatedOps) => ErrorHasMessage' ]_vars

(***************************************************************************)
(* shell/osc.rs as a library: extract_sequences, strip_sequences and       *)
(* urlencoding_decode called on one input each.  The inputs are every      *)
(* string of up to MaxOscLen bytes over ESC ] \ BEL a, every string of up  *)
(* to MaxUrlLen bytes over % + 4 1 z, the chunks of the pump that are      *)
(* UTF-8, and one string with two-byte characters around a sequence.       *)
(***************************************************************************)
MaxOscLen == 6
MaxUrlLen == 5

ScanInputs ==
    UNION {[1..n -> {ESC, 93, 92, BEL, 97}] : n \in 0..MaxOscLen}
        \cup UNION {[1..n -> {Pct, Plus, 52, 49, 122}] : n \in 0..MaxUrlLen}
        \cup {c \in Chunks : Utf8Valid(c)}
        \cup {<<195, 169, 27, 93, 7, 195, 169>>}

InitOsc ==
    /\ sessions = <<>>
    /\ minted = {}
    /\ child = [i \in Ids |-> "none"]
    /\ pump = [i \in Ids |-> NoPump]
    /\ queue = <<>>
    /\ stdout = <<>>
    /\ stdout_lock = "free"
    /\ dpc = "read"
    /\ dreq = NoRequest
    /\ dresp = NoFrame
    /\ dheld = None
    /\ wpc = "recv"
    /\ wcur = NoFrame
    /\ nreq = 0
    /\ nreads = 0
    /\ produced = [i \in Ids |-> <<>>]
    /\ pre = <<>>
    /\ pty_in = [i \in Ids |-> <<>>]
    /\ mgr = <<>>
    /\ last_op = [op |-> "", m |-> 0, target |-> "", result |-> "", invalid |-> None]
    /\ ssh = None
    /\ scan \in {[op |-> "new", input |-> s, results |-> <<>>, stripped |-> <<>>,
                  sequences |-> <<>>, decoded |-> <<>>] : s \in ScanInputs}

\* OscHandler::extract_sequences on the input, with the default handler
ExtractSequences ==
    /\ scan.op = "new"
    /\ scan' = [scan EXCEPT !.op = "extract_sequences",
                            !.results = extract_sequences(scan.input, MaxClipboardSize)]
    /\ UNCHANGED <<serverVars, mgrVars, sshVars>>

\* OscHandler::strip_sequences on the input
StripSequences ==
    /\ scan.op = "new"
    /\ scan' = [scan EXCEPT !.op = "strip_sequences",
                            !.stripped = strip_sequences(scan.input, MaxClipboardSize)[1],
                            !.sequences = strip_sequences(scan.input, MaxClipboardSize)[2]]
    /\ UNCHANGED <<serverVars, mgrVars, sshVars>>

\* urlencoding_decode on the input
UrlencodingDecode ==
    /\ scan.op = "new"
    /\ scan' = [scan EXCEPT !.op = "urlencoding_decode",
                            !.decoded = urlencoding_decode(scan.input)]
    /\ UNCHANGED <<serverVars, mgrVars, sshVars>>

NextOsc ==
    \/ ExtractSequences
    \/ StripSequences
    \/ UrlencodingDecode

SpecOsc == InitOsc /\ [][NextOsc]_vars

\* the events of the terminated OSC sequences of data from index p on, in
\* order: for each, what parse makes of the bytes between ESC ] and the
\* terminator
RECURSIVE OscEvents(_, _)
OscEvents(data, p) ==
    IF p > Len(data) THEN <<>>
    ELSE IF /\ p < Len(data) /\ data[p] = ESC /\ data[p + 1] = 93
            /\ TerminatorEnd(data, p + 2) > 0
         THEN LET e == TerminatorEnd(data, p + 2)
                  content_end == IF data[e] = BEL THEN e - 1 ELSE e - 2
              IN <<parse(SubSeq(data, p + 2, content_end), MaxClipboardSize)>>
                     \o OscEvents(data, e + 1)
         ELSE OscEvents(data, p + 1)

\* C28: strip_sequences(s) returns s without its terminated OSC sequences
\* (ESC ] up to and including the nearest BEL or ESC \), everything else in
\* place, an OSC start without a terminator included, and with it one event
\* per removed sequence, in the order of the sequences.
C28_StripRemovesTerminated ==
    (scan # None /\ scan.op = "strip_sequences") =>
        /\ scan.stripped = WithoutOsc(scan.input, 1)
        /\ scan.sequences = OscEvents(scan.input, 1)

\* strip_sequences has removed a sequence from an input that also holds an
\* OSC start without a terminator and other text: the start and the text
\* are still there
C28_Witness ==
    /\ scan # None
    /\ scan.op = "strip_sequences"
    /\ Len(scan.sequences) = 1
    /\ Find(scan.stripped, OSC_START) >= 0
    /\ Find(scan.stripped, <<97>>) >= 0
    /\ Len(scan.stripped) < Len(scan.input)

\* index p (a byte offset) is inside s and not inside a character
CharBoundary(s, p) == p >= 0 /\ p <= Len(s) /\ ~IsCont(s, p + 1)

\* C29: extract_sequences and strip_sequences return for every input, and
\* no slice they take leaves the input: the results lie inside the input,
\* on character boundaries, one after the other (the scan moves forward),
\* and the pieces strip_sequences copies are what lies between them; the
\* stripped text is not longer than the input.
C29_ScanStaysInside ==
    /\ (scan # None /\ scan.op = "extract_sequences") =>
           \A k \in 1..Len(scan.results) :
               /\ CharBoundary(scan.input, scan.results[k].start)
               /\ CharBoundary(scan.input, scan.results[k].end_)
               /\ scan.results[k].start + Len(OSC_START) < scan.results[k].end_
               /\ k > 1 => scan.results[k - 1].end_ <= scan.results[k].start
    /\ (scan # None /\ scan.op = "strip_sequences") =>
           /\ Len(scan.stripped) <= Len(scan.input)
           /\ LET results == extract_sequences(scan.input, MaxClipboardSize) IN
              \A k \in 1..Len(results) :
                  /\ results[k].start <= results[k].end_
                  /\ results[k].end_ <= Len(scan.input)
                  /\ k > 1 => results[k - 1].end_ <= results[k].start

\* extract_sequences has found two sequences, the second of which ends with
\* the input
C29_Witness ==
    /\ scan # None
    /\ scan.op = "extract_sequences"
    /\ Len(scan.results) = 2
    /\ scan.results[2].end_ = Len(scan.input)

\* s from index i on, with each '%' that is followed by two hexadecimal
\* digits replaced by the byte they denote and every other character kept
RECURSIVE PercentDecoded(_, _)
PercentDecoded(s, i) ==
    IF i > Len(s) THEN <<>>
    ELSE IF /\ s[i] = Pct
            /\ i + 2 <= Len(s)
            /\ HexVal(s[i + 1]) >= 0
            /\ HexVal(s[i + 2]) >= 0
         THEN <<16 * HexVal(s[i + 1]) + HexVal(s[i + 2])>> \o PercentDecoded(s, i + 3)
         ELSE <<s[i]>> \o PercentDecoded(s, i + 1)

\* C30: for an ASCII input, urlencoding_decode replaces each '%' followed by
\* two hexadecimal digits with the byte they denote and leaves every other
\* character as it is: a '%' that is not followed by two hexadecimal digits
\* stays, with the characters after it, and the escapes elsewhere in the
\* input are decoded.
C30_PercentEscapesDecoded ==
    ( /\ scan # None
      /\ scan.op = "urlencoding_decode"
      /\ \A k \in 1..Len(scan.input) : scan.input[k] < 128 ) =>
        scan.decoded = PercentDecoded(scan.input, 1)

C32_StoppedPumpIsSilent ==
    [][ \A i \in Ids :
            pump'[i].ended = "stop" =>
                /\ pump'[i].pc = "exited"
                /\ produced'[i] = produced[i]
      ]_vars

\* a pump that had sent output has received its stop signal while the shell
\* is alive and the dispatcher waits for the task
C32_Witness ==
    \E i \in Ids :
        /\ pump[i].ended = "stop"
        /\ pump[i].pc = "exited"
        /\ child[i] = "alive"
        /\ dpc = "close_join"
        /\ \E k \in 1..Len(produced[i]) : produced[i][k].method = "terminal.output"

\* the session.status notification of session i with status error and no
\* exit_code, as the pump sends it
StatusErrorNoCode(i) ==
    [kind |-> "notification", jsonrpc |-> "2.0", method |-> "session.status",
     params |-> [session_id |-> i, status |-> "error"]]

\* the step in which the read of pump i fails with WouldBlock or Interrupted:
\* the pump is back at the loop head and no chunk was read
ReadRetries(i) ==
    /\ pump[i].pc = "read"
    /\ pump'[i].pc = "head"
    /\ nreads' = nreads

\* C33: when the read of the local pump fails with WouldBlock or Interrupted
\* the pump sends no notification and goes round the loop again; when it
\* fails with any other error the pump sends exactly one notification,
\* session.status with status error and no exit_code, and its task returns
\* without sending anything further.
C33_ReadFailures ==
    [][ \A i \in Ids :
            /\ ReadRetries(i) =>
                   /\ produced' = produced
                   /\ queue' = queue
                   /\ pump'[i].ended = pump[i].ended
                   /\ PumpLive(i)'
            /\ (pump[i].ended # "error" /\ pump'[i].ended = "error") =>
                   /\ produced'[i] = Append(produced[i], StatusErrorNoCode(i))
                   /\ queue' = Append(queue, StatusErrorNoCode(i))
                   /\ pump'[i].pc = "exited"
            /\ pump[i].ended = "error" =>
                   /\ produced'[i] = produced[i]
                   /\ pump'[i].pc = "exited"
                   /\ pump'[i].ended = "error"
      ]_vars

\* a pump that had sent output ended on a read error, and the status
\* notification is the last thing it sent
C33_Witness ==
    \E i \in Ids :
        /\ pump[i].ended = "error"
        /\ Len(produced[i]) >= 2
        /\ produced[i][Len(produced[i])] = StatusErrorNoCode(i)
        /\ produced[i][1].method = "terminal.output"

\* C34: while the task of an SSH session waits for the next channel message,
\* the task does not hold the channel mutex, so that a send_input or a
\* resize on the open channel can take it and complete without the remote
\* sending anything.
C34_WaitingPumpLeavesChannelFree ==
    (ssh.task = "waiting" /\ ssh.channel /\ ssh.pc = "idle") =>
        /\ ssh.chan_lock # "task"
        /\ ENABLED (\E term_size \in TermSizes : SshResize(term_size))
        /\ Len(ssh.input) < MaxSshInputs =>
               ENABLED (\E data \in {<<108>>} : SshSendInput(data))

\* C35: every line that is not empty produces exactly one response frame,
\* carrying the id of the request (null when the line does not parse), and
\* the responses are written in the order in which the requests were read:
\* a request the loop has taken in hand leads to its response frame being
\* on the output stream, before the next line is read.
C35_EveryRequestGetsItsFrame ==
    (dreq # NoRequest) ~>
        /\ dpc = "resp_nl"
        /\ dresp.kind = "response"
        /\ dresp.id = (IF dreq.jsonrpc = "" THEN NullId ELSE dreq.id)
        /\ stdout[Len(stdout)] = Piece("dispatcher", "json", dresp)

\* the step in which the pump of session i ends by itself: its read returned
\* 0 or failed
PumpEnds(i) ==
    /\ pump[i].ended \notin {"eof", "error"}
    /\ pump'[i].ended \in {"eof", "error"}

InputOrResizeFails ==
    /\ dpc = "read"
    /\ dpc' = "resp"
    /\ dreq'.method \in {"session.input", "session.resize"}
    /\ dresp'.error # None

\* C37: a session.input or session.resize request that fails (unknown id,
\* bad base64, no PTY, a write or a resize that fails) leaves every
\* session's status as it was and removes no session from the registry.
C37_FailedInputKeepsSessions ==
    [][ InputOrResizeFails =>
            /\ DOMAIN sessions' = DOMAIN sessions
            /\ \A i \in DOMAIN sessions :
                   sessions'[i].info.status = sessions[i].info.status
            /\ sessions' = sessions
      ]_vars

\* a resize of a stored, running session has failed in the PTY (the shell
\* is gone) and the session is still stored, running
C37_Witness ==
    /\ dpc = "resp"
    /\ dreq.method = "session.resize"
    /\ dresp.error # None
    /\ dreq.session_id \in DOMAIN sessions
    /\ sessions[dreq.session_id].local_pty
    /\ sessions[dreq.session_id].info.status = "Running"
    /\ child[dreq.session_id] = "dead"

\* the whole request surface under the same scheduling
FairSpecRpc == SpecRpc /\ Fairness

\* the notification frames of session i the writer has written in full
\* (json and newline)
FramesOf(i) ==
    LET w == SelectSeq(stdout, LAMBDA p : /\ p.src = "writer"
                                          /\ p.part = "nl"
                                          /\ p.frame.params.session_id = i)
    IN  [k \in 1..Len(w) |-> w[k].frame]

\* the most a pump sends: per chunk of Chunks a session.cwd, a
\* session.clipboard and a terminal.output, and one session.status at the end
MaxNotes == 3 * MaxReads + 1

\* the k-th notification pump i has sent is on the output stream as the k-th
\* frame of its session
NoteWritten(i, k) ==
    /\ Len(FramesOf(i)) >= k
    /\ FramesOf(i)[k] = produced[i][k]

\* C38 as stated: every notification a pump sends while the server is
\* running is eventually written to the output stream as one frame; none is
\* dropped.
C38_EveryNotificationWritten ==
    \A i \in Ids : \A k \in 1..MaxNotes :
        (Running /\ Len(produced[i]) >= k) ~> NoteWritten(i, k)

\* C38, amended: the frames written for a session are always the first
\* notifications its pump sent, each once and in order, and every
\* notification a pump sends is eventually written as one frame unless the
\* input ends first: run then aborts the notification task and what is
\* still queued is not written.
C38_WrittenUnlessInputEnds ==
    /\ [](\A i \in Ids :
              /\ Len(FramesOf(i)) <= Len(produced[i])
              /\ \A k \in 1..Len(FramesOf(i)) : FramesOf(i)[k] = produced[i][k])
    /\ \A i \in Ids : \A k \in 1..MaxNotes :
           (Len(produced[i]) >= k) ~> (NoteWritten(i, k) \/ ~Running)

\* with the server running, a pump has sent four notifications and all four
\* are on the output stream as frames
C38_Witness ==
    \E i \in Ids :
        /\ Running
        /\ Len(produced[i]) = 4
        /\ \A k \in 1..4 : NoteWritten(i, k)

\* session.close of session i has succeeded and its response is on the
\* output stream in full: the session was stored and is gone, its shell has
\* been killed, the dispatcher is past that request, and no request has
\* been answered with an error
CloseAnswered(i) ==
    /\ i \in minted
    /\ i \notin DOMAIN sessions
    /\ pump[i].pc = "exited"
    /\ child[i] = "dead"
    /\ dreq.session_id # i
    /\ dpc \notin {"resp", "resp_nl", "close_join"}
    /\ \A k \in 1..Len(stdout) :
           stdout[k].src = "dispatcher" => IsSuccess(stdout[k].frame)

WellTerminated(data) ==
    \A p \in 1..(Len(data) - 1) :
        (data[p] = ESC /\ data[p + 1] = 93) => TerminatorEnd(data, p + 2) > 0

\* C40: for an input in which every OSC sequence is terminated, the text
\* strip_sequences returns contains no OSC start (ESC ]).
C40_StrippedHasNoOscStart ==
    (scan # None /\ scan.op = "strip_sequences" /\ WellTerminated(scan.input)) =>
        Find(scan.stripped, OSC_START) < 0

====
